---------------------------- MODULE Spec2Model ----------------------------
(***************************************************************************)
(* A model of the kaspa-dapp article subsystem: the short-URL client and   *)
(* its Express/SQLite service, the wallet key derivation, and the local    *)
(* article store with its shareable-link codec.                            *)
(*                                                                         *)
(* Time is counted in seconds (Date.now() / 1000): the millisecond values  *)
(* of the source do not fit the integers of the model checker.  Random     *)
(* 256-bit keys and 96-bit nonces are fresh values; the 8-character short  *)
(* id, whose collisions the code handles, is a choice from a small set.    *)
(* The ChaCha20-Poly1305 AEAD of @noble/ciphers is symbolic: a ciphertext  *)
(* opens only under the key and the nonce that sealed it.                  *)
(***************************************************************************)
EXTENDS Integers, Sequences, FiniteSets, TLC

VARIABLES
    now,          \* Date.now(), in seconds
    ticks,        \* how often the clock has advanced
    last,         \* the operation that ran last, with its arguments and its result
    short_urls,   \* the rows of the service's table short_urls
    calls,        \* the createShortURL calls of the clients, each with its POST
    raced,        \* article ids for which two createShortURL calls overlapped
    accounts,     \* the account the wallet extension exposes to the page, or "none"
    walletState,  \* the page's walletStore
    firstKeys,    \* per account and article id, the key first derived from the wallet
    pako,         \* whether require('pako') resolves in this build
    published,    \* how many articles publishArticle has created
    articles,             \* localStorage.articles
    articleKeys,          \* localStorage.articleKeys
    articleSignatures,    \* localStorage.articleSignatures
    articleTransactions,  \* localStorage.articleTransactions
    sharedArticles,       \* localStorage.sharedArticles
    tabs,         \* per open tab, how far its publishArticle call has got
    handlers,     \* the wallet store's asynchronous handlers, each with its position
    auth          \* kaspaAuth.currentSession, localStorage.kaspa_auth_session, authStore

varsShort == <<short_urls, calls, raced>>

varsWallet == <<accounts, walletState>>

varsKey == <<firstKeys>>

varsStore == <<pako, published, articles, articleKeys, articleSignatures,
               articleTransactions, sharedArticles>>

varsBrowser == <<varsWallet, varsKey, varsStore>>

varsPage == <<tabs, handlers, auth>>

vars == <<now, ticks, last, varsShort, varsBrowser, varsPage>>

-----------------------------------------------------------------------------
(* Bounds of the model. *)

MaxCalls == 2

MaxTicks == 2

-----------------------------------------------------------------------------
(* Values shared by the components. *)

\* Strings and JSON scalars are written as their JSON tokens: "true", "false",
\* "1", "0"; undefined, the value of a missing property, is the token below.
Undefined == "undefined"

JTrue == "true"

JFalse == "false"

Null == [null |-> TRUE]

StartTime == 1000

\* JavaScript property access: a missing property reads as undefined.
Prop(obj, f) == IF f \in DOMAIN obj THEN obj[f] ELSE Undefined

\* JavaScript truthiness of a string or a JSON scalar.
Truthy(v) == v \notin {Undefined, JFalse, "0", ""}

\* An article body: its length in UTF-16 code units, its length in UTF-8 bytes,
\* whether every character is in the Latin-1 range btoa accepts, and whether the
\* base64 of a JSON text that carries it is free of the characters + and /.
Body(units, bytes, latin1, urlsafe) ==
    [units |-> units, bytes |-> bytes, latin1 |-> latin1, urlsafe |-> urlsafe]


-----------------------------------------------------------------------------
(* The codecs: JSON, base64 and its URL-safe form, the AEAD. *)

Thrown == [thrown |-> TRUE]

\* JSON.stringify of an object.
JSONstringify(obj) == [json |-> obj]

\* JSON.parse: the object of a JSON text, a SyntaxError for any other string.
JSONparse(s) == IF DOMAIN s = {"json"} THEN s.json ELSE Thrown

\* Whether every character of a JSON text is in the Latin-1 range.
IsLatin1(s) ==
    \/ DOMAIN s # {"json"}
    \/ LET body == IF "c" \in DOMAIN s.json THEN s.json.c
                   ELSE IF "content" \in DOMAIN s.json THEN s.json.content
                   ELSE Body(0, 0, TRUE, TRUE)
       IN  body.latin1

\* btoa: throws InvalidCharacterError on a character above U+00FF.
btoa(s) == IF IsLatin1(s) THEN [b64 |-> s] ELSE Thrown

\* atob: throws on a string that is not base64.
atob(s) == IF DOMAIN s = {"b64"} THEN s.b64 ELSE Thrown

\* Whether the base64 of a text has none of the characters + and /: a property of
\* the body for a JSON text; binary data (keys, deflated data) is taken to have one.
UrlSafeAlready(s) ==
    /\ DOMAIN s = {"json"}
    /\ LET body == IF "c" \in DOMAIN s.json THEN s.json.c
                   ELSE IF "content" \in DOMAIN s.json THEN s.json.content
                   ELSE Body(0, 0, TRUE, TRUE)
       IN  body.urlsafe

\* base64 made URL-safe: + to -, / to _, the = padding stripped.  A text without
\* + and / changes in its padding only, which atob does not need.
UrlSafe(s) ==
    IF DOMAIN s = {"b64"} /\ ~UrlSafeAlready(s.b64) THEN [b64url |-> s.b64] ELSE s

\* The URL-safe form undone: - to +, _ to /, the padding restored.
UrlUnsafe(s) == IF DOMAIN s = {"b64url"} THEN [b64 |-> s.b64url] ELSE s

\* chacha20poly1305(key, nonce).encrypt(data)
Seal(key, nonce, data) == [key |-> key, nonce |-> nonce, data |-> data]

\* The data comes out whatever key and nonce are given.
OpenUnauthenticated(key, nonce, sealed) ==
    IF DOMAIN sealed = {"key", "nonce", "data"} THEN sealed.data ELSE Thrown

\* chacha20poly1305(key, nonce).decrypt(sealed): throws unless the tag verifies.
Open(key, nonce, sealed) ==
    IF DOMAIN sealed = {"key", "nonce", "data"} /\ sealed.key = key /\ sealed.nonce = nonce
    THEN sealed.data
    ELSE Thrown

-----------------------------------------------------------------------------
(* The wallet: the KasWare extension and the page's walletStore. *)

Addresses == {"kaspa:alice", "kaspa:bob"}

NoAccount == "none"

\* initialState of walletStore.
initialState == [isConnected |-> FALSE, address |-> NoAccount,
                 isManuallyDisconnected |-> FALSE]

InitWallet ==
    /\ accounts = NoAccount
    /\ walletState = initialState

\* The state of the browser's local storage on a first visit.
InitStorage ==
    /\ published = 0
    /\ articles = <<>>
    /\ articleKeys = <<>>
    /\ articleSignatures = <<>>
    /\ articleTransactions = <<>>
    /\ sharedArticles = <<>>

\* The browser tabs that have the application open.
Tabs == {1, 2}

\* A tab in which no publishArticle call is running.
IdleTab == [pc |-> "idle", todo |-> <<>>, copy |-> <<>>, pending |-> Null,
            written |-> {}, result |-> Null]

\* A handler of the wallet store that is not running.
IdleHandler == [pc |-> "idle", accounts |-> <<>>]

\* The page before its first mount: no publication under way, no handler
\* running, no listener registered, and no authentication session.
InitPage ==
    /\ tabs = [t \in Tabs |-> IdleTab]
    /\ handlers = [checkConnection |-> IdleHandler, accountsChanged |-> IdleHandler,
                   listening |-> FALSE]
    /\ auth = [currentSession |-> Null, stored |-> Null, isAuthenticated |-> FALSE]

\* kaswareService.getAccounts(): the accounts array of the extension.
getAccounts == IF accounts = NoAccount THEN <<>> ELSE <<accounts>>

\* wallet.signMessage: the signature scheme is taken to be deterministic, the
\* signature a function of the signing account and the message.
signMessage(address, message) == [signedBy |-> address, message |-> message]

\* walletActions.connect: the user approves an account in the extension.
connect(address) ==
    /\ accounts' = address
    /\ walletState' = [isConnected |-> TRUE, address |-> address,
                       isManuallyDisconnected |-> FALSE]
    /\ last' = [op |-> "connect"]
    /\ UNCHANGED <<now, ticks, varsShort, varsKey, varsStore, varsPage>>

\* walletActions.disconnect: the extension forgets the page, the listeners are
\* removed and the store is reset with the manual-disconnect flag set.
disconnect ==
    /\ accounts # NoAccount
    /\ accounts' = NoAccount
    /\ walletState' = [initialState EXCEPT !.isManuallyDisconnected = TRUE]
    /\ handlers' = [handlers EXCEPT !.listening = FALSE]
    /\ last' = [op |-> "disconnect"]
    /\ UNCHANGED <<now, ticks, varsShort, varsKey, varsStore, tabs, auth>>

-----------------------------------------------------------------------------
(* Key derivation for private articles (keyDerivation.ts). *)

\* Date.now().toString().slice(0, -6): the clock in units of 10^6 ms, 1000 s.
KEY_WINDOW == 1000

KeyArticleIds == {"article_1", "article_3"}

\* The message the wallet is asked to sign.
DerivationMessage(walletAddress, t) ==
    [prefix |-> "kaspa-auth-master-key", address |-> walletAddress,
     window |-> t \div KEY_WINDOW]

\* The info is left out of the derivation.
hkdfWithoutInfo(ikm, salt, info) == [ikm |-> ikm, salt |-> salt, info |-> <<>>]

\* hkdf(sha256, ikm, salt, info, 32)
hkdf(ikm, salt, info) == [ikm |-> ikm, salt |-> salt, info |-> info]

\* The signature read as hexadecimal, two characters a byte.
HexToBytes(signature) == [bytesOf |-> signature]

\* The bytes of the signature the wallet of walletAddress gives at time t.
SignatureBytes(walletAddress, t) ==
    HexToBytes(signMessage(walletAddress, DerivationMessage(walletAddress, t)))

\* The key derivePrivateArticleKey returns to walletAddress at time t.
DerivedKey(walletAddress, articleId, t) ==
    hkdf(SignatureBytes(walletAddress, t), "kaspa-dapp-v1", <<"article", articleId>>)

NoKey == [nokey |-> TRUE]

\* derivePrivateArticleKey: it throws without a connected account.
derivePrivateArticleKey(articleId) ==
    /\ IF getAccounts = <<>>
       THEN /\ last' = [op |-> "derivePrivateArticleKey", articleId |-> articleId,
                        walletAddress |-> NoAccount, key |-> Thrown, first |-> NoKey,
                        signatureBytes |-> Thrown]
            /\ UNCHANGED firstKeys
       ELSE LET walletAddress == getAccounts[1]
                key   == DerivedKey(walletAddress, articleId, now)
                first == firstKeys[<<walletAddress, articleId>>]
            IN  /\ last' = [op |-> "derivePrivateArticleKey", articleId |-> articleId,
                            walletAddress |-> walletAddress, key |-> key,
                            first |-> first,
                            signatureBytes |-> SignatureBytes(walletAddress, now)]
                /\ firstKeys' = IF first = NoKey
                                THEN [firstKeys EXCEPT ![<<walletAddress, articleId>>] = key]
                                ELSE firstKeys
    /\ UNCHANGED <<now, ticks, varsShort, varsWallet, varsStore, varsPage>>

\* Time passes: a second, or a whole derivation window.
TickKey(step) ==
    /\ ticks < MaxTicks
    /\ now' = now + step
    /\ ticks' = ticks + 1
    /\ last' = [op |-> "tick"]
    /\ UNCHANGED <<varsShort, varsBrowser, varsPage>>

InitKey == firstKeys = [pair \in Addresses \X KeyArticleIds |-> NoKey]

InitClock ==
    /\ now = StartTime
    /\ ticks = 0
    /\ last = [op |-> "init"]

InitShortIdle ==
    /\ short_urls = {}
    /\ calls = <<>>
    /\ raced = {}

SpecKeyInit ==
    /\ InitPage
    /\ InitClock
    /\ InitShortIdle
    /\ InitWallet
    /\ InitKey
    /\ InitStorage
    /\ pako = TRUE

SpecKeyNext ==
    \/ \E address \in Addresses : connect(address)
    \/ disconnect
    \/ \E articleId \in KeyArticleIds : derivePrivateArticleKey(articleId)
    \/ \E step \in {1, KEY_WINDOW} : TickKey(step)

SpecKey == SpecKeyInit /\ [][SpecKeyNext]_vars

\* The last operation derived a key that the same account had derived before for
\* the same article id.
DerivedAgain ==
    /\ last.op = "derivePrivateArticleKey"
    /\ last.key # Thrown
    /\ last.first # NoKey

\* C3: with a wallet that signs deterministically, derivePrivateArticleKey returns
\* to an account the key it returned to it before for the same article id,
\* however much time has passed since.
C3_SameKeyHoweverMuchTimePasses == DerivedAgain => last.key = last.first

\* Two derivations in the same 1000-second window agree.
C3_SameKeyWithinWindow == DerivedAgain /\ last.key = last.first

-----------------------------------------------------------------------------
(* The short-URL service (server.js) and its client (urlShortener.ts). *)

THIRTY_DAYS == 30 * 24 * 60 * 60

\* Short ids: 8 characters of [a-zA-Z0-9]; the model draws from two of them.
ShortIds == {"aaaaaaaa", "aaaaaaab"}

MalformedShortId == "bad-id"

ValidShortIdFormat(sid) == sid \in ShortIds

PublicA == [id |-> "article_1", title |-> "Hello", content |-> Body(50, 50, TRUE, TRUE),
            author |-> "kaspa:alice", createdAt |-> 900, isPublic |-> JTrue,
            image |-> Undefined, txId |-> "sig_1"]

PublicB == [id |-> "article_2", title |-> "Hola", content |-> Body(20, 60, FALSE, FALSE),
            author |-> "kaspa:alice", createdAt |-> 950, isPublic |-> JTrue,
            image |-> "https://img/1.jpg", txId |-> "tx_2"]

PrivateC == [id |-> "article_3", title |-> "Secret", content |-> Body(10, 10, TRUE, TRUE),
             author |-> "kaspa:alice", createdAt |-> 960, isPublic |-> JFalse,
             image |-> Undefined, txId |-> "sig_3"]

ShortArticles == {PublicA, PublicB, PrivateC}

\* The compact projection {i, t, c, a, d, p, img?, x} of an article.
CompactData(article) ==
    LET base == [i |-> article.id, t |-> article.title, c |-> article.content,
                 a |-> article.author, d |-> article.createdAt, p |-> "1",
                 x |-> article.txId]
    IN  IF Truthy(article.image)
        THEN [f \in DOMAIN base \cup {"img"} |->
                 IF f = "img" THEN article.image ELSE base[f]]
        ELSE base

\* The full projection carries the compact keys.
FullDataCompactKeys(article) == CompactData(article)

\* The full projection {id, title, content, author, createdAt, isPublic, image?, txId}.
FullData(article) ==
    LET base == [id |-> article.id, title |-> article.title, content |-> article.content,
                 author |-> article.author, createdAt |-> article.createdAt,
                 isPublic |-> JTrue, txId |-> article.txId]
    IN  IF Truthy(article.image)
        THEN [f \in DOMAIN base \cup {"image"} |->
                 IF f = "image" THEN article.image ELSE base[f]]
        ELSE base

\* The article rebuilt from a compact projection.
FromCompact(data) ==
    [id |-> Prop(data, "i"), title |-> Prop(data, "t"), content |-> Prop(data, "c"),
     author |-> Prop(data, "a"), createdAt |-> Prop(data, "d"),
     isPublic |-> IF Truthy(Prop(data, "p")) THEN JTrue ELSE JFalse,
     image |-> Prop(data, "img"), txId |-> Prop(data, "x")]

\* encryptForStorage: nonce || ciphertext.
encryptForStorage(data, key, nonce) == [nonce |-> nonce, sealed |-> Seal(key, nonce, data)]

\* decryptFromStorage: the first 12 bytes are the nonce.
decryptFromStorage(payload, key) == Open(key, payload.nonce, payload.sealed)

\* hashString: the 32-bit rolling hash of the body, in hexadecimal.
hashString(content) == [hashOf |-> content]

\* randomBytes(32): the n-th draw is a key no other draw gives.
RandomKey(n) == [keyBytes |-> n]

IdleCall == [pc |-> "idle", article |-> Null, key |-> Null, shortId |-> "",
             expiresAt |-> 0, status |-> 0, inserted |-> FALSE, after |-> {},
             shortUrl |-> Null, fullUrl |-> Null]

Returned(c) == calls[c].pc \in {"done", "failed"}

InFlight(c) == calls[c].pc \in {"generate", "insert"}

\* The required fields of the POST body: 400 if one is falsy.
MissingFields(article) ==
    \/ ~Truthy(article.id)
    \/ ~Truthy(article.title)
    \/ ~Truthy(article.author)
    \/ article.createdAt = 0

\* The check for an existing row left out.
ExistingRowsUnchecked(articleId, t) == {}

\* WHERE full_article_id = ? AND expires_at > ?
ExistingRows(articleId, t) ==
    {r \in short_urls : r.full_article_id = articleId /\ r.expires_at > t}

\* The body of a 200 response of POST /api/short.
PostResponse(shortId) == [shortId |-> shortId]

\* createShortURL after its fetch: a status other than 200 throws; the key of the
\* link is the one the response names, or else the key this call drew; the full
\* link is the base64 of the full projection, which btoa may refuse.
ClientReceive(call, status, response) ==
    IF status # 200
    THEN [call EXCEPT !.pc = "failed", !.status = status, !.expiresAt = 0]
    ELSE LET finalKey == IF Truthy(Prop(response, "encryptionKey"))
                         THEN response.encryptionKey
                         ELSE call.key
             full == btoa(JSONstringify(FullData(call.article)))
         IN  IF full = Thrown
             THEN [call EXCEPT !.pc = "failed", !.status = status, !.expiresAt = 0]
             ELSE [call EXCEPT
                     !.pc = "done", !.status = status, !.expiresAt = 0,
                     !.shortUrl = [shortId |-> response.shortId,
                                   k |-> UrlSafe([b64 |-> finalKey])],
                     !.fullUrl = [id |-> call.article.id, shared |-> full]]

\* The calls that were answered 200 before now and whose record, a row of this
\* article, is unexpired now.
AnsweredAndLive(articleId) ==
    {d \in 1..MaxCalls :
        /\ Returned(d)
        /\ calls[d].status = 200
        /\ \E r \in short_urls :
               r.id = calls[d].shortId /\ r.full_article_id = articleId /\ r.expires_at > now}

\* createShortURL of a private article: it throws before anything is sent.
createShortURLPrivate(article) ==
    /\ ~Truthy(article.isPublic)
    /\ last' = [op |-> "createShortURL", call |-> 0, article |-> article,
                error |-> "Cannot create short URL for private articles"]
    /\ UNCHANGED <<now, ticks, short_urls, calls, raced, varsBrowser, varsPage>>

\* createShortURL of a public article up to its fetch, the POST handler and the
\* callback of its db.get: an unexpired row of the article is answered at once,
\* otherwise a short id is generated.
PostStart(c, article) ==
    /\ calls[c].pc = "idle"
    /\ \A d \in 1..(c - 1) : calls[d].pc # "idle"
    /\ Truthy(article.isPublic)
    /\ LET started == [calls[c] EXCEPT !.article = article,
                                       !.after = AnsweredAndLive(article.id),
                                       !.key = RandomKey(c)]
           found   == ExistingRows(article.id, now)
       IN  IF MissingFields(article)
           THEN calls' = [calls EXCEPT ![c] = ClientReceive(started, 400, Null)]
           ELSE IF found # {}
           THEN \E row \in found :
                    calls' = [calls EXCEPT ![c] =
                        ClientReceive([started EXCEPT !.shortId = row.id],
                                      200, PostResponse(row.id))]
           ELSE calls' = [calls EXCEPT ![c] = [started EXCEPT !.pc = "generate"]]
    /\ raced' = IF \E d \in 1..MaxCalls :
                      d # c /\ InFlight(d) /\ calls[d].article.id = article.id
                THEN raced \cup {article.id}
                ELSE raced
    /\ last' = [op |-> "POST /api/short"]
    /\ UNCHANGED <<now, ticks, short_urls, varsBrowser, varsPage>>

\* The generated id is taken without looking it up.
PostGenerateUnchecked(c, sid) ==
    /\ calls[c].pc = "generate"
    /\ calls' = [calls EXCEPT ![c].pc = "insert", ![c].shortId = sid,
                              ![c].expiresAt = now + THIRTY_DAYS]
    /\ last' = [op |-> "POST /api/short"]
    /\ UNCHANGED <<now, ticks, short_urls, raced, varsBrowser, varsPage>>

\* generateUniqueShortId: an id already in the table is drawn again; with a free
\* id the handler computes the expiry and issues the INSERT.
PostGenerate(c, sid) ==
    /\ calls[c].pc = "generate"
    /\ IF \E r \in short_urls : r.id = sid
       THEN UNCHANGED calls
       ELSE calls' = [calls EXCEPT ![c].pc = "insert", ![c].shortId = sid,
                                   ![c].expiresAt = now + THIRTY_DAYS]
    /\ last' = [op |-> "POST /api/short"]
    /\ UNCHANGED <<now, ticks, short_urls, raced, varsBrowser, varsPage>>

\* The row a POST inserts.
NewRow(call, nonce) ==
    [id |-> call.shortId,
     full_article_id |-> call.article.id,
     title |-> call.article.title,
     author |-> call.article.author,
     created_at |-> call.article.createdAt,
     content_hash |-> hashString(call.article.content),
     encrypted_payload |->
         encryptForStorage(JSONstringify(CompactData(call.article)), call.key, nonce),
     expires_at |-> call.expiresAt]

\* The INSERT and its callback (the primary key rejects a second row of an id),
\* and the client's handling of the answer.
PostInsert(c) ==
    /\ calls[c].pc = "insert"
    /\ IF \E r \in short_urls : r.id = calls[c].shortId
       THEN /\ calls' = [calls EXCEPT ![c] = ClientReceive(calls[c], 500, Null)]
            /\ UNCHANGED short_urls
       ELSE /\ short_urls' = short_urls \cup {NewRow(calls[c], c)}
            /\ calls' = [calls EXCEPT ![c] =
                   ClientReceive([calls[c] EXCEPT !.inserted = TRUE], 200,
                                 PostResponse(calls[c].shortId))]
    /\ last' = [op |-> "POST /api/short"]
    /\ UNCHANGED <<now, ticks, raced, varsBrowser, varsPage>>

\* The row is looked up by its id alone.
ServedRowsAnyAge(sid, t) == {r \in short_urls : r.id = sid}

\* WHERE id = ? AND expires_at > ?
ServedRows(sid, t) == {r \in short_urls : r.id = sid /\ r.expires_at > t}

\* An error after the fetch is not caught.
ResolveResponseUncaught(row, key) ==
    LET keyBytes  == atob(UrlUnsafe(key))
        decrypted == IF keyBytes = Thrown THEN Thrown
                     ELSE decryptFromStorage(row.encrypted_payload, keyBytes)
        data      == IF decrypted = Thrown THEN Thrown ELSE JSONparse(decrypted)
    IN  IF data = Thrown THEN Thrown ELSE FromCompact(data)

\* resolveShortURL after its fetch: the payload is opened with the caller's key;
\* whatever fails gives null.
ResolveResponse(row, key) ==
    LET keyBytes  == atob(UrlUnsafe(key))
        decrypted == IF keyBytes = Thrown THEN Thrown
                     ELSE decryptFromStorage(row.encrypted_payload, keyBytes)
        data      == IF decrypted = Thrown THEN Thrown ELSE JSONparse(decrypted)
    IN  IF data = Thrown THEN Null ELSE FromCompact(data)

\* resolveShortURL with the GET handler and the callback of its db.get: 400 for a
\* short id that is not 8 alphanumeric characters, 404 without an unexpired row.
resolveShortURL(sid, key) ==
    /\ LET found == ServedRows(sid, now)
           asked == [op |-> "resolveShortURL", shortId |-> sid, key |-> key,
                     status |-> 0, articleId |-> "", result |-> Null,
                     encryptedPayload |-> Null]
       IN  IF ~ValidShortIdFormat(sid)
           THEN last' = [asked EXCEPT !.status = 400]
           ELSE IF found = {}
           THEN last' = [asked EXCEPT !.status = 404]
           ELSE \E row \in found :
                    last' = [asked EXCEPT !.status = 200,
                                          !.articleId = row.full_article_id,
                                          !.encryptedPayload = row.encrypted_payload,
                                          !.result = ResolveResponse(row, key)]
    /\ UNCHANGED <<now, ticks, short_urls, calls, raced, varsBrowser, varsPage>>

\* resolveShortURL when the request fails: fetch rejects, there is no status.
resolveShortURLFailed(sid, key) ==
    /\ last' = [op |-> "resolveShortURL", shortId |-> sid, key |-> key,
                status |-> 0, articleId |-> "", result |-> Null,
                encryptedPayload |-> Null]
    /\ UNCHANGED <<now, ticks, short_urls, calls, raced, varsBrowser, varsPage>>

\* The key of a client of the service other than this application.
ForeignKey == RandomKey(0)

\* The row of that client: its payload is sealed text that is no JSON.
ForeignRow(sid, t) ==
    [id |-> sid,
     full_article_id |-> "article_f",
     title |-> "Note",
     author |-> "kaspa:carol",
     created_at |-> t,
     content_hash |-> hashString(Body(5, 5, TRUE, TRUE)),
     encrypted_payload |-> encryptForStorage([text |-> "plain"], ForeignKey, 0),
     expires_at |-> t + THIRTY_DAYS]

\* The POST of that client, from the handler to the callback of the INSERT.
PostForeign(sid) ==
    /\ \A r \in short_urls : r.full_article_id # "article_f" /\ r.id # sid
    /\ short_urls' = short_urls \cup {ForeignRow(sid, now)}
    /\ last' = [op |-> "POST /api/short"]
    /\ UNCHANGED <<now, ticks, calls, raced, varsBrowser, varsPage>>

\* A k parameter that is no base64.
MalformedKey == [garbage |-> TRUE]

\* The sweep takes every record that expires within the next thirty days.
ExpiredRowsEarly(t) == {r \in short_urls : r.expires_at < t + THIRTY_DAYS}

\* DELETE FROM short_urls WHERE expires_at < ?
ExpiredRows(t) == {r \in short_urls : r.expires_at < t}

\* cleanupExpiredUrls, whenever its timer fires.
cleanupExpiredUrls ==
    /\ short_urls' = short_urls \ ExpiredRows(now)
    /\ last' = [op |-> "cleanupExpiredUrls"]
    /\ UNCHANGED <<now, ticks, calls, raced, varsBrowser, varsPage>>

\* Time passes: the thirty days of a record's life.
TickShort ==
    /\ ticks < MaxTicks
    /\ now' = now + THIRTY_DAYS
    /\ ticks' = ticks + 1
    /\ last' = [op |-> "tick"]
    /\ UNCHANGED <<varsShort, varsBrowser, varsPage>>

\* The keys of the links issued so far, as the k parameter carries them.
LinkKeys == {calls[c].shortUrl.k : c \in {d \in 1..MaxCalls : calls[d].pc = "done"}}

\* The keys a page is opened with: those, the key of the other client, and a
\* parameter that is no key.
OpenedKeys == LinkKeys \cup {UrlSafe([b64 |-> ForeignKey]), MalformedKey}

InitShort ==
    /\ InitPage
    /\ now = StartTime
    /\ ticks = 0
    /\ short_urls = {}
    /\ calls = [c \in 1..MaxCalls |-> IdleCall]
    /\ raced = {}
    /\ last = [op |-> "init"]
    /\ InitWallet
    /\ InitKey
    /\ InitStorage
    /\ pako = TRUE

NextShort ==
    \/ \E article \in ShortArticles : createShortURLPrivate(article)
    \/ \E c \in 1..MaxCalls, article \in ShortArticles : PostStart(c, article)
    \/ \E c \in 1..MaxCalls, sid \in ShortIds : PostGenerate(c, sid)
    \/ \E c \in 1..MaxCalls : PostInsert(c)
    \/ \E sid \in ShortIds \cup {MalformedShortId}, key \in OpenedKeys :
           resolveShortURL(sid, key)
    \/ \E sid \in ShortIds, key \in LinkKeys : resolveShortURLFailed(sid, key)
    \/ \E sid \in ShortIds : PostForeign(sid)
    \/ cleanupExpiredUrls
    \/ TickShort

SpecShort == InitShort /\ [][NextShort]_vars

-----------------------------------------------------------------------------
(* Claims about the short-URL service. *)

SameArticle(result, article) ==
    /\ result # Null
    /\ result.id = article.id
    /\ result.title = article.title
    /\ result.content = article.content

\* Call c returned successfully a link that the last resolveShortURL was asked to
\* resolve while the service held an unexpired record of c's article under it.
ResolvedLinkOf(c) ==
    /\ calls[c].pc = "done"
    /\ last.op = "resolveShortURL"
    /\ last.shortId = calls[c].shortUrl.shortId
    /\ last.key = calls[c].shortUrl.k
    /\ last.status = 200
    /\ last.articleId = calls[c].article.id

\* C1: the shortUrl returned by any createShortURL call for a public article, the
\* first or a repeated one, resolves: resolveShortURL with the short id and the key
\* of that link returns an article with the original's id, title and body.
C1_EveryShortUrlResolves ==
    \A c \in 1..MaxCalls : ResolvedLinkOf(c) => SameArticle(last.result, calls[c].article)

\* Call c returned a link for a row the call itself inserted, and the link resolves.
C1_FirstLinkResolves ==
    \E c \in 1..MaxCalls :
        ResolvedLinkOf(c) /\ calls[c].inserted /\ SameArticle(last.result, calls[c].article)

\* Call c2 for the article of c1 was made after c1 was answered, while c1's record
\* was unexpired, and no two calls for that article ever overlapped.
Sequential(c1, c2) ==
    /\ c1 # c2
    /\ Returned(c2)
    /\ calls[c2].status = 200
    /\ c1 \in calls[c2].after
    /\ calls[c1].article.id = calls[c2].article.id
    /\ calls[c2].article.id \notin raced

\* C5: two sequential createShortURL calls for the same article id, the second
\* made while the record of the first is unexpired, are answered the same short
\* id, and the second call inserts no row.
C5_SequentialCallsSameShortId ==
    \A c1, c2 \in 1..MaxCalls :
        Sequential(c1, c2) =>
            calls[c2].shortId = calls[c1].shortId /\ ~calls[c2].inserted

C5_Witness ==
    \E c1, c2 \in 1..MaxCalls :
        Sequential(c1, c2) /\ calls[c1].inserted /\ calls[c2].shortId = calls[c1].shortId

\* C6: a record whose expires_at is in the past is answered 404 by
\* GET /api/short/:shortId, swept or not, and no such record is left in the table
\* by a run of the sweep.
C6_ExpiredNeverServedAndSwept ==
    /\ last.op = "resolveShortURL" /\ last.status # 0 =>
           \A r \in short_urls :
               r.id = last.shortId /\ r.expires_at < now => last.status = 404
    /\ last.op = "cleanupExpiredUrls" =>
           \A r \in short_urls : ~(r.expires_at < now)

\* An expired record that the sweep has not deleted yet is asked for and answered 404.
C6_Witness ==
    /\ last.op = "resolveShortURL"
    /\ last.status = 404
    /\ \E r \in short_urls : r.id = last.shortId /\ r.expires_at < now

-----------------------------------------------------------------------------
(* The article store of the page (article.ts, ArticleService): publishing. *)

MaxPublished == 1

MaxStoreTicks == 1

MAX_CONTENT_SIZE == 10 * 1024

maxPayloadSize == 50 * 1024

\* generateArticleId: `article_${Date.now()}_${random}`, one id per article.
LocalIds == <<"article_l1", "article_l2", "article_l3", "article_l4">>

\* `sig_${Date.now()}_${signature.slice(0, 16)}`
SimulatedTxIds == <<"sig_l1", "sig_l2", "sig_l3", "sig_l4">>

\* The transaction ids sendKaspa returns.
TransactionIds == <<"tx_l1", "tx_l2", "tx_l3", "tx_l4">>

\* The requests of the create page.  metaBytes is the UTF-8 size of the payload
\* JSON without the ciphertext: titles, tags, the key, the punctuation.
DraftPublic ==
    [title |-> "Post", content |-> Body(100, 100, TRUE, FALSE), image |-> Undefined,
     isPublic |-> JTrue, price |-> Undefined, metaBytes |-> 400]

DraftPrivate ==
    [title |-> "Diary", content |-> Body(10240, 10240, TRUE, TRUE), image |-> Undefined,
     isPublic |-> JFalse, price |-> "100000000", metaBytes |-> 400]

DraftTooLarge ==
    [title |-> "Long", content |-> Body(5000, 10241, FALSE, FALSE), image |-> Undefined,
     isPublic |-> JTrue, price |-> Undefined, metaBytes |-> 400]

DraftHugeTitle ==
    [title |-> "Huge", content |-> Body(100, 100, TRUE, TRUE), image |-> Undefined,
     isPublic |-> JTrue, price |-> Undefined, metaBytes |-> 60000]

\* A request whose payload is of 51200 bytes.
DraftAtCeiling ==
    [title |-> "Brim", content |-> Body(100, 100, TRUE, TRUE), image |-> Undefined,
     isPublic |-> JFalse, price |-> "100000000", metaBytes |-> 51044]

Drafts == {DraftPublic, DraftPrivate, DraftTooLarge, DraftHugeTitle, DraftAtCeiling}

Ok == [ok |-> TRUE]

\* new TextEncoder().encode(content).length
contentBytes(content) == content.bytes

\* The error of validateArticleContent, with the measured and the allowed size.
ContentTooLarge(bytes) ==
    [error |-> "Article content too large", bytes |-> bytes, max |-> MAX_CONTENT_SIZE]

\* The ceiling excludes its own value.
validateArticleContentExclusive(content) ==
    IF contentBytes(content) >= MAX_CONTENT_SIZE
    THEN ContentTooLarge(contentBytes(content))
    ELSE Ok

\* validateArticleContent: throws for more than MAX_CONTENT_SIZE bytes.
validateArticleContent(content) ==
    IF contentBytes(content) > MAX_CONTENT_SIZE
    THEN ContentTooLarge(contentBytes(content))
    ELSE Ok

\* new TextEncoder().encode(data): the UTF-8 bytes of a well-formed text.
TextEncode(data) == [utf8 |-> data]

\* new TextDecoder().decode(bytes): the text of UTF-8 bytes, and replacement
\* characters for bytes that are no UTF-8.
TextDecode(bytes) ==
    IF DOMAIN bytes = {"utf8"} THEN bytes.utf8 ELSE [replaced |-> bytes]

\* btoa(String.fromCharCode(...bytes)): every byte is a character up to U+00FF.
BytesToBase64(bytes) == [b64 |-> bytes]

\* generateNonce: the 12 random bytes of the n-th draw.
generateNonce(n) == [nonceBytes |-> n]

\* generateKey: the base64 of the 32 random bytes of the n-th draw.
generateKey(n) == BytesToBase64(RandomKey(n))

\* CryptoError(..., 'DECRYPTION_FAILED')
DecryptionFailed == [thrown |-> "CryptoError", code |-> "DECRYPTION_FAILED"]

\* cryptoService.encrypt with the key and the nonce of the n-th draw.
encrypt(data, n) ==
    LET key            == generateKey(n)
        nonce          == generateNonce(n)
        keyBytes       == atob(key)
        dataBytes      == TextEncode(data)
        encryptedBytes == Seal(keyBytes, nonce, dataBytes)
    IN  [encryptedData |-> BytesToBase64(encryptedBytes),
         nonce |-> BytesToBase64(nonce),
         key |-> key]

\* The decrypted bytes are returned as they are.
decryptWithoutDecoding(request) ==
    LET keyBytes       == atob(request.key)
        nonce          == atob(request.nonce)
        encryptedBytes == atob(request.encryptedData)
    IN  IF Thrown \in {keyBytes, nonce, encryptedBytes} THEN DecryptionFailed
        ELSE LET decryptedBytes == Open(keyBytes, nonce, encryptedBytes)
             IN  IF decryptedBytes = Thrown THEN DecryptionFailed
                 ELSE decryptedBytes

\* cryptoService.decrypt: every error of the decoding and of the cipher is
\* rethrown as CryptoError DECRYPTION_FAILED.
decrypt(request) ==
    LET keyBytes       == atob(request.key)
        nonce          == atob(request.nonce)
        encryptedBytes == atob(request.encryptedData)
    IN  IF Thrown \in {keyBytes, nonce, encryptedBytes} THEN DecryptionFailed
        ELSE LET decryptedBytes == Open(keyBytes, nonce, encryptedBytes)
             IN  IF decryptedBytes = Thrown THEN DecryptionFailed
                 ELSE TextDecode(decryptedBytes)

\* createEncryptedArticle after the content check: the n-th article, created at t.
createEncryptedArticle(request, author, n, t) ==
    LET encryptionResult == encrypt(request.content, n)
    IN  [encryptedArticle |->
             [id |-> LocalIds[n],
              encryptedContent |-> encryptionResult.encryptedData,
              nonce |-> encryptionResult.nonce,
              metadata |-> [title |-> request.title, image |-> request.image,
                            isPublic |-> request.isPublic, price |-> request.price,
                            author |-> author, createdAt |-> t, updatedAt |-> t,
                            contentSize |-> contentBytes(request.content)],
              txId |-> ""],
         key |-> [key |-> encryptionResult.key, articleId |-> LocalIds[n],
                  isPublic |-> request.isPublic]]

\* The key goes into every payload.
createPayloadWithKey(encryptedArticle, key) ==
    [type |-> "article", version |-> "1.0", data |-> encryptedArticle, key |-> key.key]

\* createPayload: the key goes into the payload of a public article only.
createPayload(encryptedArticle, key) ==
    IF Truthy(key.isPublic)
    THEN [type |-> "article", version |-> "1.0", data |-> encryptedArticle,
          key |-> key.key]
    ELSE [type |-> "article", version |-> "1.0", data |-> encryptedArticle]

\* The UTF-8 size of JSON.stringify(payload): the base64 of the ciphertext (the
\* body and the 16 bytes of the tag) and the rest.
payloadBytes(request) == 4 * ((contentBytes(request.content) + 16 + 2) \div 3) + request.metaBytes

PayloadTooLarge(bytes) ==
    [error |-> "Payload too large", bytes |-> bytes, max |-> maxPayloadSize]

\* The size of the payload is not looked at.
validatePayloadSizeUnchecked(request) == Ok

\* validatePayloadSize
validatePayloadSize(request) ==
    IF payloadBytes(request) > maxPayloadSize
    THEN PayloadTooLarge(payloadBytes(request))
    ELSE Ok

\* The amount of the transaction, in sompi.
minAmount == 100000

\* kaswareService.signMessage(messageToSign)
SignRequest(message) == [call |-> "signMessage", message |-> message]

\* kaswareService.sendKaspa(author, minAmount)
SendRequest(author) == [call |-> "sendKaspa", toAddress |-> author, sompi |-> minAmount]

\* The transaction is sent whether or not the wallet signed.
WalletRequestsBoth(author, message, signOk) ==
    <<SignRequest(message), SendRequest(author)>>

\* The requests publishArticle makes to the wallet, in their order: signMessage,
\* and sendKaspa in the catch of a failed signMessage.
WalletRequests(author, message, signOk) ==
    IF signOk THEN <<SignRequest(message)>>
    ELSE <<SignRequest(message), SendRequest(author)>>

\* The key of the article is stored before the publication fails.
PublishFailsKeyStored(request, error, wallet) ==
    /\ last' = [op |-> "publishArticle", request |-> request, success |-> FALSE,
                articleId |-> "", txId |-> "", error |-> error, wallet |-> wallet]
    /\ articleKeys' = Append(articleKeys, [key |-> generateKey(published + 1),
                                           articleId |-> LocalIds[published + 1],
                                           isPublic |-> request.isPublic])
    /\ UNCHANGED <<pako, published, articles, articleSignatures, articleTransactions,
                   sharedArticles>>

\* publishArticle returning {success: false, error}: nothing is stored.
PublishFails(request, error, wallet) ==
    /\ last' = [op |-> "publishArticle", request |-> request, success |-> FALSE,
                articleId |-> "", txId |-> "", error |-> error, wallet |-> wallet]
    /\ UNCHANGED varsStore

\* storeArticle, storeArticleKey (public articles), and the payload stored with
\* the signature or, when signing failed, with the transaction.
PublishStores(request, encryptedArticle, key, payloadString, signed, proof, wallet) ==
    /\ published' = published + 1
    /\ articles' = Append(articles, encryptedArticle)
    /\ articleKeys' = IF Truthy(key.isPublic) THEN Append(articleKeys, key)
                      ELSE articleKeys
    /\ IF signed
       THEN /\ articleSignatures' =
                   (encryptedArticle.id :> [signature |-> proof, payload |-> payloadString,
                                            timestamp |-> now]) @@ articleSignatures
            /\ UNCHANGED articleTransactions
       ELSE /\ articleTransactions' =
                   (encryptedArticle.id :> [txId |-> proof, payload |-> payloadString,
                                            timestamp |-> now]) @@ articleTransactions
            /\ UNCHANGED articleSignatures
    /\ last' = [op |-> "publishArticle", request |-> request, success |-> TRUE,
                articleId |-> encryptedArticle.id, txId |-> encryptedArticle.txId,
                error |-> Ok, wallet |-> wallet]
    /\ UNCHANGED <<pako, sharedArticles>>

\* publishArticle: the wallet signs the payload or, if it refuses, sends a
\* transaction to the author's own address; if that fails too, nothing is stored.
publishArticle(request, signOk, sendOk) ==
    /\ published < MaxPublished
    /\ IF getAccounts = <<>>
       THEN PublishFails(request, [error |-> "No wallet account connected"], <<>>)
       ELSE IF validateArticleContent(request.content) # Ok
       THEN PublishFails(request, validateArticleContent(request.content), <<>>)
       ELSE IF validatePayloadSize(request) # Ok
       THEN PublishFails(request, validatePayloadSize(request), <<>>)
       ELSE LET author  == getAccounts[1]
                n       == published + 1
                created == createEncryptedArticle(request, author, n, now)
                payloadString ==
                    JSONstringify(createPayload(created.encryptedArticle, created.key))
                messageToSign == <<"KASPA_ARTICLE", LocalIds[n], payloadString>>
                signature == signMessage(author, messageToSign)
                wallet    == WalletRequests(author, messageToSign, signOk)
            IN  IF signOk
                THEN PublishStores(request,
                         [created.encryptedArticle EXCEPT !.txId = SimulatedTxIds[n]],
                         created.key, payloadString, TRUE, signature, wallet)
                ELSE IF sendOk
                THEN PublishStores(request,
                         [created.encryptedArticle EXCEPT !.txId = TransactionIds[n]],
                         created.key, payloadString, FALSE, TransactionIds[n], wallet)
                ELSE PublishFails(request, [error |-> "Failed to send Kaspa"], wallet)
    /\ UNCHANGED <<now, ticks, varsShort, varsWallet, varsKey, varsPage>>

-----------------------------------------------------------------------------
(* The article store: decrypting what is stored. *)

\* decryptArticle: the article of a stored record, or the error of the cipher.
decryptArticle(encryptedArticle, key) ==
    LET decryptedContent == decrypt([encryptedData |-> encryptedArticle.encryptedContent,
                                     nonce |-> encryptedArticle.nonce, key |-> key])
    IN  IF decryptedContent = DecryptionFailed
        THEN Thrown
        ELSE [id |-> encryptedArticle.id,
              title |-> encryptedArticle.metadata.title,
              content |-> decryptedContent,
              image |-> encryptedArticle.metadata.image,
              isPublic |-> encryptedArticle.metadata.isPublic,
              price |-> encryptedArticle.metadata.price,
              author |-> encryptedArticle.metadata.author,
              createdAt |-> encryptedArticle.metadata.createdAt,
              updatedAt |-> encryptedArticle.metadata.updatedAt,
              txId |-> encryptedArticle.txId]

\* keys.find(key => key.articleId === id)
FindKey(keys, id) ==
    LET matches == {i \in 1..Len(keys) : keys[i].articleId = id}
    IN  IF matches = {} THEN NoKey
        ELSE keys[CHOOSE i \in matches : \A j \in matches : i <= j]

\* The key field of a stored payload, if it has one.
PayloadKey(stored, articleId) ==
    IF articleId \notin DOMAIN stored THEN NoKey
    ELSE LET payload == JSONparse(stored[articleId].payload)
         IN  IF payload # Thrown /\ "key" \in DOMAIN payload THEN payload.key ELSE NoKey

\* Only the stored signature is looked at.
extractKeyFromSignatureOnly(articleId) == PayloadKey(articleSignatures, articleId)

\* extractKeyFromPublicPayload: the stored signature first, then the transaction.
extractKeyFromPublicPayload(articleId) ==
    IF PayloadKey(articleSignatures, articleId) # NoKey
    THEN PayloadKey(articleSignatures, articleId)
    ELSE PayloadKey(articleTransactions, articleId)

\* One round of the loop of getDecryptedArticles: the decrypted article (Thrown
\* if the record is skipped) and the key the round stores, if any.  A private
\* article without a stored key is only logged, wallet connected or not.
DecryptStored(encryptedArticle, keys) ==
    LET articleKey == FindKey(keys, encryptedArticle.id)
        extracted  == extractKeyFromPublicPayload(encryptedArticle.id)
    IN  IF articleKey # NoKey
        THEN [article |-> decryptArticle(encryptedArticle, articleKey.key),
              stored |-> NoKey]
        ELSE IF Truthy(encryptedArticle.metadata.isPublic) /\ extracted # NoKey
        THEN LET article == decryptArticle(encryptedArticle, extracted)
             IN  [article |-> article,
                  stored |-> IF article = Thrown THEN NoKey
                             ELSE [key |-> extracted, articleId |-> encryptedArticle.id,
                                   isPublic |-> JTrue]]
        ELSE [article |-> Thrown, stored |-> NoKey]

RECURSIVE InsertByCreatedAt(_, _)
\* The article put behind every article that is not older than it.
InsertByCreatedAt(article, sorted) ==
    IF sorted = <<>> THEN <<article>>
    ELSE IF Head(sorted).createdAt >= article.createdAt
    THEN <<Head(sorted)>> \o InsertByCreatedAt(article, Tail(sorted))
    ELSE <<article>> \o sorted

RECURSIVE SortByCreatedAt(_)
\* sort((a, b) => b.createdAt - a.createdAt): newest first, stable.
SortByCreatedAt(list) ==
    IF list = <<>> THEN <<>>
    ELSE InsertByCreatedAt(list[Len(list)], SortByCreatedAt(SubSeq(list, 1, Len(list) - 1)))

\* The rounds of getDecryptedArticles over the stored records.
DecryptionRounds == [i \in 1..Len(articles) |-> DecryptStored(articles[i], articleKeys)]

\* What getDecryptedArticles returns.
DecryptedArticles ==
    LET rounds == DecryptionRounds
        kept   == SelectSeq(rounds, LAMBDA r : r.article # Thrown)
    IN  SortByCreatedAt([i \in 1..Len(kept) |-> kept[i].article])

\* The keys getDecryptedArticles appends to articleKeys.
ExtractedKeys ==
    LET rounds == DecryptionRounds
        stored == SelectSeq(rounds, LAMBDA r : r.stored # NoKey)
    IN  [i \in 1..Len(stored) |-> stored[i].stored]

\* getDecryptedArticles, as the article list of the page calls it.
getDecryptedArticles ==
    /\ articleKeys' = articleKeys \o ExtractedKeys
    /\ last' = [op |-> "getDecryptedArticles", result |-> DecryptedArticles,
                extracted |-> ExtractedKeys]
    /\ UNCHANGED <<pako, published, articles, articleSignatures, articleTransactions,
                   sharedArticles>>
    /\ UNCHANGED <<now, ticks, varsShort, varsWallet, varsKey, varsPage>>

\* recoverMissingKeys: for every public record without a key, the key of its
\* stored payload is stored again.
recoverMissingKeys ==
    LET missing   == SelectSeq(articles, LAMBDA a :
                         /\ FindKey(articleKeys, a.id) = NoKey
                         /\ Truthy(a.metadata.isPublic)
                         /\ extractKeyFromPublicPayload(a.id) # NoKey)
        recovered == [i \in 1..Len(missing) |->
                         [key |-> extractKeyFromPublicPayload(missing[i].id),
                          articleId |-> missing[i].id, isPublic |-> JTrue]]
    IN  /\ articleKeys' = articleKeys \o recovered
        /\ last' = [op |-> "recoverMissingKeys", recoveredCount |-> Len(recovered)]
        /\ UNCHANGED <<pako, published, articles, articleSignatures,
                       articleTransactions, sharedArticles>>
        /\ UNCHANGED <<now, ticks, varsShort, varsWallet, varsKey, varsPage>>

\* The item articleKeys is gone from localStorage: getStoredKeys reads [].
articleKeysLost ==
    /\ articleKeys # <<>>
    /\ articleKeys' = <<>>
    /\ last' = [op |-> "articleKeysLost"]
    /\ UNCHANGED <<pako, published, articles, articleSignatures, articleTransactions,
                   sharedArticles>>
    /\ UNCHANGED <<now, ticks, varsShort, varsWallet, varsKey, varsPage>>

\* delete record[articleId]
Without(record, articleId) == [i \in DOMAIN record \ {articleId} |-> record[i]]

\* deleteArticle: the record, its key, its signature and its transaction are
\* removed from their items of localStorage; it returns true.
deleteArticle(articleId) ==
    /\ articles' = SelectSeq(articles, LAMBDA article : article.id # articleId)
    /\ articleKeys' = SelectSeq(articleKeys, LAMBDA key : key.articleId # articleId)
    /\ articleSignatures' = Without(articleSignatures, articleId)
    /\ articleTransactions' = Without(articleTransactions, articleId)
    /\ last' = [op |-> "deleteArticle", articleId |-> articleId, deleted |-> TRUE]
    /\ UNCHANGED <<pako, published, sharedArticles>>
    /\ UNCHANGED <<now, ticks, varsShort, varsWallet, varsKey, varsPage>>

-----------------------------------------------------------------------------
(* The article store: shareable links and getArticleById. *)

SEVEN_DAYS == 7 * 24 * 60 * 60

\* A URL parameter that is not there.
NoParam == [absent |-> TRUE]

\* pako.deflate and pako.inflate; inflate throws on what is no deflate stream.
Deflate(str) == [deflated |-> str]

Inflate(bytes) == IF DOMAIN bytes = {"deflated"} THEN bytes.deflated ELSE Thrown

\* compressString: deflate and URL-safe base64; where require('pako') throws,
\* the URL-safe base64 of the text itself, which btoa may refuse.
compressString(str) ==
    IF pako THEN UrlSafe(btoa(Deflate(str))) ELSE UrlSafe(btoa(str))

\* decompressString: the base64 restored, decoded and inflated; where any of it
\* throws, atob of the parameter as it came.
decompressString(compressed) ==
    LET inflated == IF pako THEN Inflate(atob(UrlUnsafe(compressed))) ELSE Thrown
    IN  IF inflated # Thrown THEN inflated ELSE atob(compressed)

\* shareData of generateShareableURL: {i, t, c, a, d, p: 1, img?, x}.
shareData(article) ==
    LET base == [i |-> article.id, t |-> article.title, c |-> article.content,
                 a |-> article.author, d |-> article.createdAt, p |-> "1",
                 x |-> article.txId]
    IN  IF Truthy(article.image)
        THEN [f \in DOMAIN base \cup {"img"} |->
                 IF f = "img" THEN article.image ELSE base[f]]
        ELSE base

\* The link of an article page: the path id and the parameters shared and c.
Link(id, shared, c) == [id |-> id, shared |-> shared, c |-> c]

\* The visibility of the article is not looked at.
generateShareableURLUnchecked(article, compress) ==
    LET encoded == IF compress
                   THEN compressString(JSONstringify(shareData(article)))
                   ELSE btoa(JSONstringify(shareData(article)))
    IN  IF encoded = Thrown THEN Thrown
        ELSE IF compress THEN Link(article.id, NoParam, encoded)
        ELSE Link(article.id, encoded, NoParam)

\* generateShareableURL: throws for a private article and when the encoding throws.
generateShareableURL(article, compress) ==
    IF ~Truthy(article.isPublic) THEN Thrown
    ELSE LET encoded == IF compress
                        THEN compressString(JSONstringify(shareData(article)))
                        ELSE btoa(JSONstringify(shareData(article)))
         IN  IF encoded = Thrown THEN Thrown
             ELSE IF compress THEN Link(article.id, NoParam, encoded)
             ELSE Link(article.id, encoded, NoParam)

\* articleData of the compressed branch, from the compact keys.
articleDataOfCompact(compactData) ==
    [id |-> Prop(compactData, "i"), title |-> Prop(compactData, "t"),
     content |-> Prop(compactData, "c"), author |-> Prop(compactData, "a"),
     createdAt |-> Prop(compactData, "d"),
     isPublic |-> IF Truthy(Prop(compactData, "p")) THEN JTrue ELSE JFalse,
     image |-> Prop(compactData, "img"), txId |-> Prop(compactData, "x")]

\* The parameter c decoded: Thrown where decompressString or JSON.parse throws.
DecodeCompressed(compressedData) ==
    LET compactData == JSONparse(decompressString(compressedData))
    IN  IF compactData = Thrown THEN Thrown ELSE articleDataOfCompact(compactData)

\* The parameter shared decoded: the object of the JSON text, as it is.
DecodeShared(sharedData) == JSONparse(atob(sharedData))

\* Decoded data is taken whatever id it carries.
AcceptDecodedAnyId(articleData, id) == Truthy(Prop(articleData, "isPublic"))

\* articleData.id === id && articleData.isPublic
AcceptDecoded(articleData, id) ==
    Prop(articleData, "id") = id /\ Truthy(Prop(articleData, "isPublic"))

\* The compressed strategy: the decoded article, or null after a caught error
\* or a failed validation.
TryCompressed(id, compressedData) ==
    IF compressedData = NoParam THEN Null
    ELSE LET articleData == DecodeCompressed(compressedData)
         IN  IF articleData # Thrown /\ AcceptDecoded(articleData, id)
             THEN articleData ELSE Null

\* The plain strategy.
TryShared(id, sharedData) ==
    IF sharedData = NoParam THEN Null
    ELSE LET articleData == DecodeShared(sharedData)
         IN  IF articleData # Thrown /\ AcceptDecoded(articleData, id)
             THEN articleData ELSE Null

\* The local strategy: articles.find(article => article.id === id).
TryLocal(id) ==
    LET found == SelectSeq(DecryptedArticles, LAMBDA a : a.id = id)
    IN  IF found = <<>> THEN Null ELSE Head(found)

\* The cached entry is returned whatever its age.
getSharedArticleAnyAge(id) ==
    IF id \in DOMAIN sharedArticles THEN sharedArticles[id] ELSE Null

\* getSharedArticle: the cached entry while it is unexpired.
getSharedArticle(id) ==
    IF id \in DOMAIN sharedArticles /\ sharedArticles[id].expiresAt > now
    THEN sharedArticles[id] ELSE Null

\* The cache after getSharedArticle: an expired entry is deleted.
SharedAfterGet(id) ==
    IF id \in DOMAIN sharedArticles /\ ~(sharedArticles[id].expiresAt > now)
    THEN [i \in DOMAIN sharedArticles \ {id} |-> sharedArticles[i]]
    ELSE sharedArticles

\* The cache after storeArticleForSharing on top of cache: public articles only.
SharedAfterStore(cache, article) ==
    IF ~Truthy(Prop(article, "isPublic")) THEN cache
    ELSE LET entry == [f \in DOMAIN article \cup {"sharedAt", "expiresAt"} |->
                          IF f = "sharedAt" THEN now
                          ELSE IF f = "expiresAt" THEN now + SEVEN_DAYS
                          ELSE article[f]]
         IN  [i \in DOMAIN cache \cup {article.id} |->
                 IF i = article.id THEN entry ELSE cache[i]]

\* The cache is asked before the URL parameters.
ResolutionOrderCacheFirst == <<"cache", "compressed", "shared", "local">>

\* The order of the strategies of getArticleById.
ResolutionOrder == <<"compressed", "shared", "local", "cache">>

\* What each strategy gives for a request.
Outcomes(id, sharedData, compressedData) ==
    [compressed |-> TryCompressed(id, compressedData),
     shared     |-> TryShared(id, sharedData),
     local      |-> TryLocal(id),
     cache      |-> getSharedArticle(id)]

\* The position in the order of the first strategy that succeeds, 5 if none does.
Winner(outcomes) ==
    LET succeed == {i \in 1..4 : outcomes[ResolutionOrder[i]] # Null}
    IN  IF succeed = {} THEN 5 ELSE CHOOSE i \in succeed : \A j \in succeed : i <= j

\* getArticleById: the strategies in their order up to the first that succeeds.
\* An article from a parameter and a public local article are stored for
\* sharing; the local strategy stores the keys it extracts; the cache strategy
\* deletes an expired entry.
getArticleById(id, sharedData, compressedData) ==
    LET outcomes == Outcomes(id, sharedData, compressedData)
        winner   == Winner(outcomes)
        tried    == {ResolutionOrder[i] : i \in 1..4 \cap 1..winner}
        source   == IF winner = 5 THEN "none" ELSE ResolutionOrder[winner]
        result   == IF winner = 5 THEN Null ELSE outcomes[source]
        swept    == IF "cache" \in tried THEN SharedAfterGet(id) ELSE sharedArticles
    IN  /\ articleKeys' = IF "local" \in tried THEN articleKeys \o ExtractedKeys
                          ELSE articleKeys
        /\ sharedArticles' = IF source \in {"compressed", "shared", "local"}
                             THEN SharedAfterStore(swept, result)
                             ELSE swept
        /\ last' = [op |-> "getArticleById", id |-> id, sharedData |-> sharedData,
                    compressedData |-> compressedData, outcomes |-> outcomes,
                    source |-> source, result |-> result,
                    removed |-> swept # sharedArticles]
        /\ UNCHANGED <<pako, published, articles, articleSignatures, articleTransactions>>
        /\ UNCHANGED <<now, ticks, varsShort, varsWallet, varsKey, varsPage>>

-----------------------------------------------------------------------------
(* The article store: the links a page is opened with, and the specification. *)

\* Public articles of other authors, whose links reach this browser.
SharedSamples == {PublicA}

\* The account of the user of this browser.
StoreAddresses == {"kaspa:alice"}

\* The public articles this browser can decrypt.
LocalPublic ==
    {DecryptedArticles[i] : i \in {j \in 1..Len(DecryptedArticles) :
                                      Truthy(DecryptedArticles[j].isPublic)}}

\* The links generateShareableURL gives, in both encodings.
GeneratedLinks ==
    {generateShareableURL(article, compress) :
        article \in SharedSamples \cup LocalPublic, compress \in BOOLEAN} \ {Thrown}

\* The fullUrl links of createShortURL: the full projection under shared.
FullUrlLinks ==
    {Link(article.id, btoa(JSONstringify(FullData(article))), NoParam) :
        article \in {a \in SharedSamples : btoa(JSONstringify(FullData(a))) # Thrown}}

\* Links without parameters, to the stored and to other articles.
BareLinks ==
    {Link(id, NoParam, NoParam) :
        id \in {LocalIds[n] : n \in 1..published} \cup {PublicA.id, PrivateC.id}}

\* Links that were tampered with: the parameters of one article under the path
\* of another, data whose visibility flag is cleared, and a parameter c that is
\* no encoding of anything next to a sound parameter shared.
TamperedLinks ==
    LET ofA     == {generateShareableURL(PublicA, compress) : compress \in BOOLEAN}
                       \ {Thrown}
        fullA   == btoa(JSONstringify(FullData(PublicA)))
        hiddenC == [shareData(PrivateC) EXCEPT !.p = "0"]
        hiddenS == [FullData(PrivateC) EXCEPT !.isPublic = JFalse]
    IN  {Link(PublicB.id, link.shared, link.c) : link \in ofA}
        \cup {Link(PublicB.id, fullA, NoParam),
              Link(PrivateC.id, NoParam, compressString(JSONstringify(hiddenC))),
              Link(PrivateC.id, btoa(JSONstringify(hiddenS)), NoParam),
              Link(PublicA.id, fullA, [garbage |-> TRUE]),
              Link(PublicA.id, NoParam, [garbage |-> TRUE])}

Links == GeneratedLinks \cup FullUrlLinks \cup BareLinks \cup TamperedLinks

\* Time passes: the seven days of a cached shared article.
TickStore ==
    /\ ticks < MaxStoreTicks
    /\ now' = now + SEVEN_DAYS
    /\ ticks' = ticks + 1
    /\ last' = [op |-> "tick"]
    /\ UNCHANGED <<varsShort, varsBrowser, varsPage>>

Init ==
    /\ InitPage
    /\ InitClock
    /\ InitShortIdle
    /\ InitWallet
    /\ InitKey
    /\ InitStorage
    /\ pako \in BOOLEAN

Next ==
    \/ \E address \in StoreAddresses : connect(address)
    \/ disconnect
    \/ \E request \in Drafts, signOk \in BOOLEAN, sendOk \in BOOLEAN :
           publishArticle(request, signOk, sendOk)
    \/ getDecryptedArticles
    \/ \E link \in Links : getArticleById(link.id, link.shared, link.c)
    \/ recoverMissingKeys
    \/ articleKeysLost
    \/ \E i \in 1..Len(articles) : deleteArticle(articles[i].id)
    \/ TickStore

Spec == Init /\ [][Next]_vars

-----------------------------------------------------------------------------
(* Sharing: the links the two services hand out, opened in a browser whose    *)
(* local store is empty.                                                      *)

\* The page calls generateShareableURL for an article.
shareArticle(article, compress) ==
    /\ last' = [op |-> "generateShareableURL", article |-> article,
                compress |-> compress,
                url |-> generateShareableURL(article, compress)]
    /\ UNCHANGED <<now, ticks, varsShort, varsBrowser, varsPage>>

\* The page is opened with the fullUrl that call c returned.
openFullUrl(c) ==
    /\ calls[c].pc = "done"
    /\ getArticleById(calls[c].fullUrl.id, calls[c].fullUrl.shared, NoParam)

InitShare ==
    /\ InitPage
    /\ InitClock
    /\ short_urls = {}
    /\ calls = [c \in 1..MaxCalls |-> IdleCall]
    /\ raced = {}
    /\ InitWallet
    /\ InitKey
    /\ InitStorage
    /\ pako \in BOOLEAN

NextShare ==
    \/ \E article \in ShortArticles : createShortURLPrivate(article)
    \/ \E c \in 1..MaxCalls, article \in ShortArticles : PostStart(c, article)
    \/ \E c \in 1..MaxCalls, sid \in ShortIds : PostGenerate(c, sid)
    \/ \E c \in 1..MaxCalls : PostInsert(c)
    \/ \E c \in 1..MaxCalls : openFullUrl(c)
    \/ \E article \in ShortArticles, compress \in BOOLEAN :
           shareArticle(article, compress)

SpecShare == InitShare /\ [][NextShare]_vars

-----------------------------------------------------------------------------
(* The cipher service on its own: texts are encrypted, and what is given back *)
(* to decrypt is what encrypt returned or differs from it.                    *)

MaxDraws == 3

\* Plaintexts of 0 to 10240 bytes: empty, one byte, multi-byte characters, and
\* the largest of one-byte and of multi-byte characters.
Plaintexts ==
    {Body(0, 0, TRUE, TRUE), Body(1, 1, TRUE, TRUE), Body(20, 60, FALSE, FALSE),
     Body(MAX_CONTENT_SIZE, MAX_CONTENT_SIZE, TRUE, TRUE),
     Body(3414, MAX_CONTENT_SIZE, FALSE, FALSE)}

\* A string that is no base64.
NotBase64 == [garbage |-> TRUE]

\* The ciphertext with a byte changed.
Corrupted(encryptedData) == BytesToBase64([flipped |-> atob(encryptedData)])

\* What encrypt returned, and what differs from it in one or two of ciphertext,
\* nonce and key: those of another encryption, a changed ciphertext, no base64.
DecryptionRequests(sealedAs) ==
    LET others  == {encrypt(data, n) : data \in Plaintexts, n \in 1..MaxDraws}
        strange == {[sealedAs EXCEPT !.encryptedData = Corrupted(sealedAs.encryptedData)],
                    [sealedAs EXCEPT !.encryptedData = NotBase64],
                    [sealedAs EXCEPT !.nonce = NotBase64],
                    [sealedAs EXCEPT !.key = NotBase64]}
    IN  {sealedAs}
        \cup {[sealedAs EXCEPT !.encryptedData = other.encryptedData] : other \in others}
        \cup {[sealedAs EXCEPT !.nonce = other.nonce] : other \in others}
        \cup {[sealedAs EXCEPT !.key = other.key] : other \in others}
        \cup {[sealedAs EXCEPT !.nonce = other.nonce, !.key = other.key] : other \in others}
        \cup strange

\* The requests there are once a text was encrypted.
RequestsOfLast ==
    IF last.op = "encrypt" THEN DecryptionRequests(last.sealedAs) ELSE {}

\* A text is encrypted with the n-th draw of key and nonce.
encryptText(data, n) ==
    /\ last' = [op |-> "encrypt", data |-> data, sealedAs |-> encrypt(data, n)]
    /\ UNCHANGED <<now, ticks, varsShort, varsBrowser, varsPage>>

\* decrypt is called with a request.
decryptRequest(request) ==
    /\ last.op = "encrypt"
    /\ last' = [op |-> "decrypt", data |-> last.data, sealedAs |-> last.sealedAs,
                request |-> request, result |-> decrypt(request)]
    /\ UNCHANGED <<now, ticks, varsShort, varsBrowser, varsPage>>

\* An article of an accepted size is encrypted into its record.
encryptArticle(request, n) ==
    /\ validateArticleContent(request.content) = Ok
    /\ last' = [op |-> "createEncryptedArticle", request |-> request,
                created |-> createEncryptedArticle(request, "kaspa:alice", n, now)]
    /\ UNCHANGED <<now, ticks, varsShort, varsBrowser, varsPage>>

\* decryptArticle is called for the record with a key.
decryptRecord(key) ==
    /\ last.op = "createEncryptedArticle"
    /\ last' = [op |-> "decryptArticle", request |-> last.request,
                created |-> last.created, key |-> key,
                result |-> decryptArticle(last.created.encryptedArticle, key)]
    /\ UNCHANGED <<now, ticks, varsShort, varsBrowser, varsPage>>

InitCipher ==
    /\ InitPage
    /\ InitClock
    /\ InitShortIdle
    /\ InitWallet
    /\ InitKey
    /\ InitStorage
    /\ pako = TRUE

NextCipher ==
    \/ \E data \in Plaintexts, n \in 1..MaxDraws : encryptText(data, n)
    \/ \E request \in RequestsOfLast : decryptRequest(request)
    \/ \E request \in Drafts, n \in 1..MaxDraws : encryptArticle(request, n)
    \/ \E key \in {generateKey(n) : n \in 1..MaxDraws} \cup {NotBase64} :
           decryptRecord(key)

SpecCipher == InitCipher /\ [][NextCipher]_vars

-----------------------------------------------------------------------------
(* Two tabs publishing: the local store is shared by the tabs of the origin, *)
(* and every store helper of article.ts reads a collection with getItem,    *)
(* changes its copy and writes the copy back with setItem. Another tab can  *)
(* run between the two; a setItem can throw (the quota), which the helper   *)
(* catches and logs.                                                        *)

MaxTabPublished == 2

\* What the tabs publish: a public and a private draft, and the two drafts
\* that are refused for their size.
TabDrafts == {DraftPublic, DraftPrivate, DraftTooLarge, DraftHugeTitle}

\* localStorage.getItem(name), parsed.
StoreValue(name) ==
    CASE name = "articles" -> articles
      [] name = "articleKeys" -> articleKeys
      [] name = "articleSignatures" -> articleSignatures
      [] name = "articleTransactions" -> articleTransactions

\* The store helpers publishArticle calls after the wallet has signed, or after
\* it has sent the transaction, in their order.
StoreCalls(signed, isPublic) ==
    IF signed
    THEN (IF isPublic THEN <<"articleKeys">> ELSE <<>>) \o <<"articles", "articleSignatures">>
    ELSE <<"articleTransactions">> \o (IF isPublic THEN <<"articleKeys">> ELSE <<>>)
         \o <<"articles">>

\* The helper adds its record to the collection as it is in the store now.
WrittenBackCurrent(t) ==
    LET tab == tabs[t]
        p   == tab.pending
        proof == [payload |-> p.payloadString, timestamp |-> now]
    IN  CASE Head(tab.todo) = "articles" -> Append(articles, p.article)
          [] Head(tab.todo) = "articleKeys" -> Append(articleKeys, p.key)
          [] Head(tab.todo) = "articleSignatures" ->
                 (p.article.id :> ([signature |-> p.proof] @@ proof)) @@ articleSignatures
          [] Head(tab.todo) = "articleTransactions" ->
                 (p.article.id :> ([txId |-> p.proof] @@ proof)) @@ articleTransactions

\* What a store helper hands to setItem: the collection as the tab read it,
\* with the tab's record pushed or assigned.
WrittenBack(t) ==
    LET tab == tabs[t]
        p   == tab.pending
        proof == [payload |-> p.payloadString, timestamp |-> now]
    IN  CASE Head(tab.todo) = "articles" -> Append(tab.copy, p.article)
          [] Head(tab.todo) = "articleKeys" -> Append(tab.copy, p.key)
          [] Head(tab.todo) = "articleSignatures" ->
                 (p.article.id :> ([signature |-> p.proof] @@ proof)) @@ tab.copy
          [] Head(tab.todo) = "articleTransactions" ->
                 (p.article.id :> ([txId |-> p.proof] @@ proof)) @@ tab.copy

\* publishArticle in tab t returning {success: false, error}.
tabFails(t, request, error, wallet) ==
    /\ PublishFails(request, error, wallet)
    /\ tabs' = [tabs EXCEPT ![t] =
           [IdleTab EXCEPT !.result = [success |-> FALSE, articleId |-> "", txId |-> ""]]]

\* publishArticle in tab t, up to the first store helper: the checks, the
\* encryption and the wallet's signature or transaction.
tabPublish(t, request, signOk, sendOk) ==
    /\ tabs[t].pc = "idle"
    /\ published < MaxTabPublished
    /\ IF getAccounts = <<>>
       THEN tabFails(t, request, [error |-> "No wallet account connected"], <<>>)
       ELSE IF validateArticleContent(request.content) # Ok
       THEN tabFails(t, request, validateArticleContent(request.content), <<>>)
       ELSE IF validatePayloadSize(request) # Ok
       THEN tabFails(t, request, validatePayloadSize(request), <<>>)
       ELSE LET author  == getAccounts[1]
                n       == published + 1
                created == createEncryptedArticle(request, author, n, now)
                payloadString ==
                    JSONstringify(createPayload(created.encryptedArticle, created.key))
                messageToSign == <<"KASPA_ARTICLE", LocalIds[n], payloadString>>
                wallet  == WalletRequests(author, messageToSign, signOk)
                txId    == IF signOk THEN SimulatedTxIds[n] ELSE TransactionIds[n]
                pending == [request |-> request,
                            article |-> [created.encryptedArticle EXCEPT !.txId = txId],
                            key |-> created.key,
                            payloadString |-> payloadString,
                            proof |-> IF signOk THEN signMessage(author, messageToSign)
                                      ELSE [transaction |-> txId],
                            wallet |-> wallet]
            IN  IF signOk \/ sendOk
                THEN /\ tabs' = [tabs EXCEPT ![t] =
                            [IdleTab EXCEPT !.pc = "getItem",
                                            !.todo = StoreCalls(signOk,
                                                         Truthy(created.key.isPublic)),
                                            !.pending = pending]]
                     /\ published' = n
                     /\ last' = [op |-> "signed", tab |-> t]
                     /\ UNCHANGED <<pako, articles, articleKeys, articleSignatures,
                                    articleTransactions, sharedArticles>>
                ELSE tabFails(t, request, [error |-> "Failed to send Kaspa"], wallet)
    /\ UNCHANGED <<now, ticks, varsShort, varsWallet, varsKey, handlers, auth>>

\* The store helper's localStorage.getItem and JSON.parse in tab t.
tabGetItem(t) ==
    /\ tabs[t].pc = "getItem"
    /\ tabs' = [tabs EXCEPT ![t].pc = "setItem",
                            ![t].copy = StoreValue(Head(tabs[t].todo))]
    /\ last' = [op |-> "getItem", tab |-> t, store |-> Head(tabs[t].todo)]
    /\ UNCHANGED <<now, ticks, varsShort, varsBrowser, handlers, auth>>

\* The store helper's localStorage.setItem in tab t, which succeeds or throws
\* into the helper's catch; after the last helper publishArticle returns
\* {success: true, articleId, txId}.
tabSetItem(t, ok) ==
    /\ tabs[t].pc = "setItem"
    /\ LET tab   == tabs[t]
           name  == Head(tab.todo)
           value == IF ok THEN WrittenBack(t) ELSE StoreValue(name)
           rest  == Tail(tab.todo)
           written == IF ok THEN tab.written \cup {name} ELSE tab.written
       IN  /\ articles' = IF name = "articles" THEN value ELSE articles
           /\ articleKeys' = IF name = "articleKeys" THEN value ELSE articleKeys
           /\ articleSignatures' =
                  IF name = "articleSignatures" THEN value ELSE articleSignatures
           /\ articleTransactions' =
                  IF name = "articleTransactions" THEN value ELSE articleTransactions
           /\ IF rest = <<>>
              THEN /\ tabs' = [tabs EXCEPT ![t] =
                          [IdleTab EXCEPT !.written = written,
                                          !.result = [success |-> TRUE,
                                                      articleId |-> tab.pending.article.id,
                                                      txId |-> tab.pending.article.txId]]]
                   /\ last' = [op |-> "publishArticle", request |-> tab.pending.request,
                               success |-> TRUE,
                               articleId |-> tab.pending.article.id,
                               txId |-> tab.pending.article.txId,
                               error |-> Ok, wallet |-> tab.pending.wallet]
              ELSE /\ tabs' = [tabs EXCEPT ![t].pc = "getItem", ![t].todo = rest,
                                           ![t].copy = <<>>, ![t].written = written]
                   /\ last' = [op |-> "setItem", tab |-> t, store |-> name, ok |-> ok]
    /\ UNCHANGED <<pako, published, sharedArticles>>
    /\ UNCHANGED <<now, ticks, varsShort, varsWallet, varsKey, handlers, auth>>

InitTabs ==
    /\ InitPage
    /\ InitClock
    /\ InitShortIdle
    /\ InitWallet
    /\ InitKey
    /\ InitStorage
    /\ pako = TRUE

NextTabs ==
    \/ \E address \in StoreAddresses : connect(address)
    \/ \E t \in Tabs, request \in TabDrafts, signOk \in BOOLEAN, sendOk \in BOOLEAN :
           tabPublish(t, request, signOk, sendOk)
    \/ \E t \in Tabs : tabGetItem(t)
    \/ \E t \in Tabs, ok \in BOOLEAN : tabSetItem(t, ok)

SpecTabs == InitTabs /\ [][NextTabs]_vars

-----------------------------------------------------------------------------
(* The wallet store with its asynchronous handlers (wallet.ts). A handler is *)
(* suspended at each await of a wallet call; the extension answers later,   *)
(* with the accounts it exposes at that time, or the call is rejected.      *)

\* walletStore.update of a handler that found an account and its balance.
Connected(state, accs) == [state EXCEPT !.isConnected = TRUE, !.address = accs[1]]

\* onMount of a page: walletActions.checkConnection(), which returns at once
\* after a manual disconnect and otherwise runs up to its await of
\* getAccounts, and walletActions.setupEventListeners().
mount ==
    /\ handlers.checkConnection.pc = "idle"
    /\ handlers' = [handlers EXCEPT
           !.checkConnection = IF walletState.isManuallyDisconnected THEN IdleHandler
                               ELSE [pc |-> "getAccounts", accounts |-> <<>>],
           !.listening = TRUE]
    /\ last' = [op |-> "mount"]
    /\ UNCHANGED <<now, ticks, varsShort, varsBrowser, tabs, auth>>

\* checkConnection resumes with the answer to getAccounts: with an account it
\* goes on to its await of getBalance, without one it marks the store as not
\* connected; a rejected call leaves the store as it is.
checkConnectionAccounts(ok) ==
    /\ handlers.checkConnection.pc = "getAccounts"
    /\ IF ok /\ getAccounts # <<>>
       THEN /\ handlers' = [handlers EXCEPT
                   !.checkConnection = [pc |-> "getBalance", accounts |-> getAccounts]]
            /\ UNCHANGED walletState
       ELSE /\ handlers' = [handlers EXCEPT !.checkConnection = IdleHandler]
            /\ walletState' = IF ok THEN [walletState EXCEPT !.isConnected = FALSE,
                                                              !.address = NoAccount]
                               ELSE walletState
    /\ last' = [op |-> "checkConnection", awaited |-> "getAccounts", ok |-> ok]
    /\ UNCHANGED <<now, ticks, varsShort, accounts, varsKey, varsStore, tabs, auth>>

\* The store after a handler resumed with the answer to getBalance: the state
\* as it is now, marked connected with the account the handler had found.
ResumedWithBalance(state, accs) == Connected(state, accs)

\* checkConnection resumes with the answer to getBalance.
checkConnectionBalance(ok) ==
    /\ handlers.checkConnection.pc = "getBalance"
    /\ handlers' = [handlers EXCEPT !.checkConnection = IdleHandler]
    /\ walletState' = IF ok
                       THEN ResumedWithBalance(walletState, handlers.checkConnection.accounts)
                       ELSE walletState
    /\ last' = [op |-> "checkConnection", awaited |-> "getBalance", ok |-> ok]
    /\ UNCHANGED <<now, ticks, varsShort, accounts, varsKey, varsStore, tabs, auth>>

\* The extension emits accountsChanged with its accounts and the listener of
\* setupEventListeners runs: it returns after a manual disconnect, awaits
\* getBalance when there is an account and resets the store when there is none.
accountsChanged ==
    /\ handlers.listening
    /\ handlers.accountsChanged.pc = "idle"
    /\ IF walletState.isManuallyDisconnected
       THEN UNCHANGED <<walletState, handlers>>
       ELSE IF getAccounts # <<>>
       THEN /\ handlers' = [handlers EXCEPT
                   !.accountsChanged = [pc |-> "getBalance", accounts |-> getAccounts]]
            /\ UNCHANGED walletState
       ELSE /\ walletState' = initialState
            /\ UNCHANGED handlers
    /\ last' = [op |-> "accountsChanged", awaited |-> "none", ok |-> TRUE]
    /\ UNCHANGED <<now, ticks, varsShort, accounts, varsKey, varsStore, tabs, auth>>

\* The accountsChanged listener resumes with the answer to getBalance.
accountsChangedBalance(ok) ==
    /\ handlers.accountsChanged.pc = "getBalance"
    /\ handlers' = [handlers EXCEPT !.accountsChanged = IdleHandler]
    /\ walletState' = IF ok
                       THEN ResumedWithBalance(walletState, handlers.accountsChanged.accounts)
                       ELSE walletState
    /\ last' = [op |-> "accountsChanged", awaited |-> "getBalance", ok |-> ok]
    /\ UNCHANGED <<now, ticks, varsShort, accounts, varsKey, varsStore, tabs, auth>>

InitWalletStore ==
    /\ InitPage
    /\ InitClock
    /\ InitShortIdle
    /\ InitWallet
    /\ InitKey
    /\ InitStorage
    /\ pako = TRUE

NextWalletStore ==
    \/ mount
    \/ \E address \in Addresses : connect(address)
    \/ disconnect
    \/ \E ok \in BOOLEAN : checkConnectionAccounts(ok)
    \/ \E ok \in BOOLEAN : checkConnectionBalance(ok)
    \/ accountsChanged
    \/ \E ok \in BOOLEAN : accountsChangedBalance(ok)

SpecWalletStore == InitWalletStore /\ [][NextWalletStore]_vars

-----------------------------------------------------------------------------
(* The authentication session (KaspaAuthService and the auth store). *)

MaxAuthTicks == 2

\* SESSION_DURATION, 24 hours.
SESSION_DURATION == 24 * 60 * 60

\* The age up to which verifySignature accepts a challenge, 5 minutes.
CHALLENGE_MAX_AGE == 5 * 60

\* The period of the automatic refresh, 5 minutes.
REFRESH_INTERVAL == 5 * 60

\* What wallet.signMessage resolves to: a hexadecimal string or a base64 one.
HexSignature == [signature |-> "hex"]
Base64Signature == [signature |-> "base64"]

\* The outcomes of kaswareService.signMessage: a signature, or the user
\* rejects the request.
SignOutcomes == {HexSignature, Base64Signature, Thrown}

\* generateChallenge(address)
generateChallenge(address, t) == [address |-> address, timestamp |-> t]

\* verifySignature: the signature is a non-empty hexadecimal string, the
\* challenge is for the address, and it is less than five minutes old.
verifySignature(challenge, signature, address, t) ==
    /\ signature = HexSignature
    /\ challenge.address = address
    /\ t - challenge.timestamp < CHALLENGE_MAX_AGE

\* createSession(address)
createSession(address, t) ==
    [sessionToken |-> [sha256 |-> <<"session", address, t>>],
     address |-> address,
     authenticated |-> TRUE,
     expiresAt |-> t + SESSION_DURATION,
     createdAt |-> t]

\* isAuthenticated(): there is a session and it has not expired.
isAuthenticated ==
    /\ auth.currentSession # Null
    /\ ~(now > auth.currentSession.expiresAt)
    /\ auth.currentSession.authenticated

\* The session and its stored copy after a call of isAuthenticated(): an
\* expired session is logged out.
AfterIsAuthenticated ==
    IF auth.currentSession # Null /\ now > auth.currentSession.expiresAt
    THEN [auth EXCEPT !.currentSession = Null, !.stored = Null]
    ELSE auth

\* authActions.logout: the session, its stored copy and the store are cleared.
LoggedOut == [currentSession |-> Null, stored |-> Null, isAuthenticated |-> FALSE]

\* authActions.authenticate with KaspaAuthService.authenticate: the accounts
\* are read; without one the wallet is asked to connect, and the user approves
\* an account or rejects; the address is taken from the accounts read first;
\* the wallet signs the challenge after the time the user takes, or the user
\* rejects; a verified signature creates the session.
authenticate(approved, signature, elapsed) ==
    /\ elapsed > 0 => ticks < MaxAuthTicks
    /\ LET accs      == getAccounts
           connects  == accs = <<>>
           refused   == connects /\ approved = NoAccount
           address   == IF accs # <<>> THEN accs[1] ELSE Undefined
           challenge == generateChallenge(address, now)
           prompted  == ~refused
           t         == IF prompted THEN now + elapsed ELSE now
           isValid   == verifySignature(challenge, signature, address, t)
           success   == prompted /\ signature # Thrown /\ isValid
           session   == createSession(address, t)
       IN  /\ accounts' = IF connects /\ ~refused THEN approved ELSE accounts
           /\ now' = t
           /\ ticks' = IF t > now THEN ticks + 1 ELSE ticks
           /\ auth' = IF success
                      THEN [currentSession |-> session,
                            stored |-> JSONstringify(session),
                            isAuthenticated |-> TRUE]
                      ELSE [auth EXCEPT !.isAuthenticated = FALSE]
           /\ last' = [op |-> "authenticate", success |-> success,
                       session |-> IF success THEN session ELSE Null,
                       connected |-> connects /\ ~refused]
    /\ UNCHANGED <<varsShort, walletState, varsKey, varsStore, tabs, handlers>>

\* authActions.checkAuthStatus: isAuthenticated() and getCurrentSession(), and
\* the result in the store.
checkAuthStatus ==
    /\ auth' = [AfterIsAuthenticated EXCEPT !.isAuthenticated = isAuthenticated]
    /\ last' = [op |-> "isAuthenticated", result |-> isAuthenticated]
    /\ UNCHANGED <<now, ticks, varsShort, varsBrowser, tabs, handlers>>

\* KaspaAuthService.refreshSession: without a session nothing; with another
\* first account, or none, logout; else the session expires 24 hours from now.
refreshSession ==
    IF auth.currentSession = Null THEN auth
    ELSE IF getAccounts = <<>> \/ getAccounts[1] # auth.currentSession.address
    THEN [auth EXCEPT !.currentSession = Null, !.stored = Null]
    ELSE LET session == [auth.currentSession EXCEPT !.expiresAt = now + SESSION_DURATION]
         IN  [auth EXCEPT !.currentSession = session, !.stored = JSONstringify(session)]

\* authActions.refreshSession, which the interval of auth.ts calls every five
\* minutes while the store says authenticated: a refused refresh logs out.
autoRefresh ==
    /\ auth.isAuthenticated
    /\ LET refreshed == refreshSession.currentSession # Null
       IN  /\ auth' = IF refreshed THEN refreshSession ELSE LoggedOut
           /\ last' = [op |-> "refreshSession", result |-> refreshed]
    /\ UNCHANGED <<now, ticks, varsShort, varsBrowser, tabs, handlers>>

\* authActions.logout
logout ==
    /\ auth' = LoggedOut
    /\ last' = [op |-> "logout"]
    /\ UNCHANGED <<now, ticks, varsShort, varsBrowser, tabs, handlers>>

\* The page is loaded again: the constructor of KaspaAuthService loads the
\* stored session unless it has expired, and auth.ts checks the status.
reload ==
    /\ LET loaded == IF auth.stored # Null /\ now < auth.stored.json.expiresAt
                     THEN auth.stored.json ELSE Null
       IN  /\ auth' = [currentSession |-> loaded,
                       stored |-> IF loaded = Null THEN Null ELSE auth.stored,
                       isAuthenticated |-> loaded # Null]
           /\ last' = [op |-> "reload", result |-> loaded # Null]
    /\ UNCHANGED <<now, ticks, varsShort, varsBrowser, tabs, handlers>>

\* Time passes: the five minutes between two runs of the interval, or the
\* lifetime of a session while no timer runs.
TickAuth(step) ==
    /\ ticks < MaxAuthTicks
    /\ now' = now + step
    /\ ticks' = ticks + 1
    /\ last' = [op |-> "tick"]
    /\ UNCHANGED <<varsShort, varsBrowser, varsPage>>

InitAuth ==
    /\ InitPage
    /\ InitClock
    /\ InitShortIdle
    /\ InitWallet
    /\ InitKey
    /\ InitStorage
    /\ pako = TRUE

NextAuth ==
    \/ \E address \in Addresses : connect(address)
    \/ disconnect
    \/ \E approved \in Addresses \cup {NoAccount}, signature \in SignOutcomes,
          elapsed \in {0, CHALLENGE_MAX_AGE} :
           authenticate(approved, signature, elapsed)
    \/ checkAuthStatus
    \/ autoRefresh
    \/ logout
    \/ reload
    \/ \E step \in {REFRESH_INTERVAL, SESSION_DURATION + 1} : TickAuth(step)

SpecAuth == InitAuth /\ [][NextAuth]_vars

-----------------------------------------------------------------------------
(* Claims about the article store. *)

\* The stored records of private articles.
PrivateStored ==
    {articles[i] : i \in {j \in 1..Len(articles) : ~Truthy(articles[j].metadata.isPublic)}}

\* The page's wallet store shows the author's account connected.
ConnectedAs(author) ==
    /\ walletState.isConnected
    /\ ~walletState.isManuallyDisconnected
    /\ walletState.address = author

\* The body a record was encrypted from.
OriginalBody(encryptedArticle) == atob(encryptedArticle.encryptedContent).data.utf8

\* The last operation read the stored articles and gave the body of the record.
ReadWithBody(encryptedArticle) ==
    \/ /\ last.op = "getArticleById"
       /\ last.result # Null
       /\ last.result.id = encryptedArticle.id
       /\ last.result.content = OriginalBody(encryptedArticle)
    \/ /\ last.op = "getDecryptedArticles"
       /\ \E i \in 1..Len(last.result) :
              /\ last.result[i].id = encryptedArticle.id
              /\ last.result[i].content = OriginalBody(encryptedArticle)

\* The last operation was a read that the record was in reach of.
ReadOf(encryptedArticle) ==
    \/ last.op = "getArticleById" /\ last.id = encryptedArticle.id
    \/ last.op = "getDecryptedArticles"

\* C2: a published private article is not returned by getArticleById or
\* getDecryptedArticles while its author's wallet is not connected, and is
\* returned with its original body while that wallet is connected.
C2_PrivateReadableWithWalletOnly ==
    \A encryptedArticle \in PrivateStored :
        ReadOf(encryptedArticle) =>
            (ReadWithBody(encryptedArticle) <=> ConnectedAs(encryptedArticle.metadata.author))

\* A private article was read without the wallet and its body was not returned.
C2_NotReadableWithoutWallet ==
    \E encryptedArticle \in PrivateStored :
        /\ ReadOf(encryptedArticle)
        /\ ~ConnectedAs(encryptedArticle.metadata.author)
        /\ ~ReadWithBody(encryptedArticle)

ShareableFields == {"id", "title", "content", "author", "createdAt", "image", "txId"}

\* The last operation opened the link generateShareableURL gives for the article.
OpenedLinkOf(article, compress) ==
    LET url == generateShareableURL(article, compress)
    IN  /\ last.op = "getArticleById"
        /\ url # Thrown
        /\ last.id = url.id
        /\ last.sharedData = url.shared
        /\ last.compressedData = url.c

SameShareable(result, article) ==
    /\ result # Null
    /\ \A f \in ShareableFields : Prop(result, f) = article[f]

\* C4: for every public article and both encodings, getArticleById with the
\* parameter of the link generateShareableURL built returns an article with the
\* same id, title, content, author, createdAt, image and txId.
C4_DecodeReversesEncode ==
    \A article \in SharedSamples \cup LocalPublic, compress \in BOOLEAN :
        OpenedLinkOf(article, compress) => SameShareable(last.result, article)

\* The compressed link of an article is opened and gives the article back.
C4_CompressedLinkDecodes ==
    \E article \in SharedSamples :
        /\ OpenedLinkOf(article, TRUE)
        /\ last.source = "compressed"
        /\ SameShareable(last.result, article)

\* The stored payloads: of the signatures and of the transactions.
StoredPayloads ==
    {[id |-> id, payload |-> JSONparse(articleSignatures[id].payload)] :
        id \in DOMAIN articleSignatures}
    \cup {[id |-> id, payload |-> JSONparse(articleTransactions[id].payload)] :
        id \in DOMAIN articleTransactions}

\* C7: no key of a private article is persisted: articleKeys has no entry for a
\* private article, and no stored signature or transaction payload of a private
\* article has a key field.
C7_PrivateKeyNeverPersisted ==
    \A encryptedArticle \in PrivateStored :
        /\ \A i \in 1..Len(articleKeys) : articleKeys[i].articleId # encryptedArticle.id
        /\ \A stored \in StoredPayloads :
               stored.id = encryptedArticle.id => "key" \notin DOMAIN stored.payload

\* A private article is stored with its payload, and the key recovery has run.
C7_Witness ==
    /\ last.op = "recoverMissingKeys"
    /\ \E encryptedArticle \in PrivateStored, stored \in StoredPayloads :
           stored.id = encryptedArticle.id

\* The last operation was a publishArticle that reached the content check.
PublishChecked ==
    /\ last.op = "publishArticle"
    /\ Prop(last.error, "error") # "No wallet account connected"

\* C8: a body of up to 10240 UTF-8 bytes passes the content check of
\* publishArticle; a body of 10241 bytes or more is rejected with the error that
\* names the measured size and the allowed 10240 bytes.
C8_CeilingIs10240Bytes ==
    PublishChecked =>
        IF last.request.content.bytes >= 10241
        THEN /\ ~last.success
             /\ last.error = [error |-> "Article content too large",
                              bytes |-> last.request.content.bytes, max |-> 10240]
        ELSE Prop(last.error, "error") # "Article content too large"

\* A body of exactly 10240 bytes was published.
C8_Witness ==
    /\ PublishChecked
    /\ last.request.content.bytes = 10240
    /\ last.success

\* Decoded data that getArticleById has to reject for the path id.
Rejectable(articleData, id) ==
    /\ articleData # Thrown
    /\ Prop(articleData, "id") # id \/ ~Truthy(Prop(articleData, "isPublic"))

\* C9: getArticleById does not return, and does not store for sharing, an
\* article decoded from the parameter c or shared whose id is not the requested
\* id or whose visibility flag is not public.
C9_DecodedArticleValidated ==
    last.op = "getArticleById" =>
        /\ last.compressedData # NoParam
               /\ Rejectable(DecodeCompressed(last.compressedData), last.id)
               => last.source # "compressed"
        /\ last.sharedData # NoParam
               /\ Rejectable(DecodeShared(last.sharedData), last.id)
               => last.source # "shared"
        /\ last.source \in {"compressed", "shared"} =>
               /\ last.result.id = last.id
               /\ Truthy(last.result.isPublic)
               /\ last.id \in DOMAIN sharedArticles
        /\ \A id \in DOMAIN sharedArticles :
               sharedArticles[id].id = id /\ Truthy(sharedArticles[id].isPublic)

\* A link whose parameter c carries another article's id was opened.
C9_Witness ==
    /\ last.op = "getArticleById"
    /\ last.compressedData # NoParam
    /\ DecodeCompressed(last.compressedData) # Thrown
    /\ DecodeCompressed(last.compressedData).id # last.id
    /\ last.source # "compressed"

\* C10: getArticleById returns the result of the first strategy that succeeds,
\* in the order compressed parameter, shared parameter, local store, shared
\* cache; a failure of an earlier strategy raises nothing and does not keep the
\* later ones from being tried; the result is null only if all four fail.
C10_FirstSuccessfulStrategy ==
    last.op = "getArticleById" =>
        LET o == last.outcomes
        IN  /\ last.result # Thrown
            /\ o.compressed # Null =>
                   last.source = "compressed" /\ last.result = o.compressed
            /\ o.compressed = Null /\ o.shared # Null =>
                   last.source = "shared" /\ last.result = o.shared
            /\ o.compressed = Null /\ o.shared = Null /\ o.local # Null =>
                   last.source = "local" /\ last.result = o.local
            /\ o.compressed = Null /\ o.shared = Null /\ o.local = Null
                   /\ o.cache # Null =>
                   last.source = "cache" /\ last.result = o.cache
            /\ last.result = Null <=>
                   o.compressed = Null /\ o.shared = Null /\ o.local = Null
                   /\ o.cache = Null

\* The parameter c could not be decoded, and the parameter shared gave the article.
C10_Witness ==
    /\ last.op = "getArticleById"
    /\ last.compressedData # NoParam
    /\ DecodeCompressed(last.compressedData) = Thrown
    /\ last.source = "shared"
    /\ last.result # Null

\* The stored records of public articles.
PublicStored ==
    {articles[i] : i \in {j \in 1..Len(articles) : Truthy(articles[j].metadata.isPublic)}}

\* The original payload of the record is still stored, with a signature or with
\* a transaction.
PayloadStored(encryptedArticle) ==
    encryptedArticle.id \in DOMAIN articleSignatures \cup DOMAIN articleTransactions

\* articleKeys holds the key the record was encrypted with.
KeyStored(encryptedArticle) ==
    \E i \in 1..Len(articleKeys) :
        /\ articleKeys[i].articleId = encryptedArticle.id
        /\ decryptArticle(encryptedArticle, articleKeys[i].key) # Thrown

\* C11: after getDecryptedArticles, a public article whose original payload is
\* stored with a signature or a transaction is returned with its original body
\* and has its key in articleKeys, also when the key had been lost; after
\* recoverMissingKeys the key is in articleKeys; no key of a private article is
\* ever recovered.
C11_PublicKeyRecovered ==
    /\ last.op = "getDecryptedArticles" =>
           \A encryptedArticle \in PublicStored :
               PayloadStored(encryptedArticle) =>
                   ReadWithBody(encryptedArticle) /\ KeyStored(encryptedArticle)
    /\ last.op = "recoverMissingKeys" =>
           \A encryptedArticle \in PublicStored :
               PayloadStored(encryptedArticle) => KeyStored(encryptedArticle)
    /\ \A encryptedArticle \in PrivateStored :
           ~KeyStored(encryptedArticle) /\ ~ReadWithBody(encryptedArticle)

\* getDecryptedArticles found no key for a public article whose payload is stored
\* with its transaction, extracted it, and returned the article.
C11_Witness ==
    /\ last.op = "getDecryptedArticles"
    /\ Len(last.extracted) > 0
    /\ \E encryptedArticle \in PublicStored :
           /\ encryptedArticle.id \in DOMAIN articleTransactions
           /\ last.extracted[1].articleId = encryptedArticle.id
           /\ ReadWithBody(encryptedArticle)
           /\ KeyStored(encryptedArticle)

\* The last getArticleById was given the id and the shared parameter of the
\* fullUrl that call c returned, and nothing else.
OpenedFullUrlOf(c) ==
    /\ calls[c].pc = "done"
    /\ last.op = "getArticleById"
    /\ last.id = calls[c].fullUrl.id
    /\ last.sharedData = calls[c].fullUrl.shared
    /\ last.compressedData = NoParam

Genuine(request) ==
    \E data \in Plaintexts, n \in 1..MaxDraws : request = encrypt(data, n)

\* C14: decrypt returns no plaintext for an input that fails authentication: when
\* the ciphertext or the nonce is not the one encrypt produced, or the key is not
\* the one used, it fails with CryptoError DECRYPTION_FAILED; decryptArticle with
\* a key that is not the record's fails as well.
C14_NoPlaintextWithoutAuthentication ==
    /\ last.op = "decrypt" /\ ~Genuine(last.request) => last.result = DecryptionFailed
    /\ last.op = "decryptArticle" /\ last.key # last.created.key.key =>
           last.result = Thrown

\* decrypt was given the ciphertext and the nonce of an encryption with the key
\* of another one, and failed.
C14_Witness ==
    /\ last.op = "decrypt"
    /\ last.request.encryptedData = last.sealedAs.encryptedData
    /\ last.request.nonce = last.sealedAs.nonce
    /\ last.request.key # last.sealedAs.key
    /\ atob(last.request.key) # Thrown
    /\ last.result = DecryptionFailed

\* The first key of the account of the last derivation for articleId was derived
\* from the signature bytes the last derivation had: the input keying material
\* of a key is the signature bytes.
FromSameSignature(articleId) ==
    /\ last.op = "derivePrivateArticleKey"
    /\ last.key # Thrown
    /\ firstKeys[<<last.walletAddress, articleId>>] # NoKey
    /\ firstKeys[<<last.walletAddress, articleId>>].ikm = last.signatureBytes

\* C15: the derived key is a function of the signature bytes and the article id:
\* two derivations from the same signature bytes give the same key for the same
\* article id and different keys for different article ids.
C15_KeyOfSignatureAndArticleId ==
    \A articleId \in KeyArticleIds :
        FromSameSignature(articleId) =>
            (firstKeys[<<last.walletAddress, articleId>>] = last.key
                 <=> articleId = last.articleId)

\* A key was derived again from the same signature bytes, equal to the one before
\* for its article id and different from the one for the other article id.
C15_Witness ==
    /\ DerivedAgain
    /\ FromSameSignature(last.articleId)
    /\ last.first = last.key
    /\ \E articleId \in KeyArticleIds \ {last.articleId} :
           /\ FromSameSignature(articleId)
           /\ firstKeys[<<last.walletAddress, articleId>>] # last.key

\* C16: for an article whose isPublic is false, createShortURL and
\* generateShareableURL both fail with an error and return no URL, and
\* createShortURL fails before any request is sent: no call to the service and
\* no record of the service is of a private article.
C16_PrivateNeverShared ==
    /\ last.op = "createShortURL" /\ ~Truthy(last.article.isPublic) =>
           /\ last.error = "Cannot create short URL for private articles"
           /\ DOMAIN last \cap {"shortUrl", "fullUrl"} = {}
    /\ last.op = "generateShareableURL" /\ ~Truthy(last.article.isPublic) =>
           last.url = Thrown
    /\ \A c \in 1..MaxCalls :
           calls[c].article # Null => Truthy(calls[c].article.isPublic)
    /\ \A row \in short_urls : row.full_article_id # PrivateC.id

\* generateShareableURL was refused for a private article while the service held
\* a record of a public one.
C16_Witness ==
    /\ last.op = "generateShareableURL"
    /\ last.article = PrivateC
    /\ last.url = Thrown
    /\ short_urls # {}

\* createShortURL was refused for a private article and no call was started.
C16_WitnessShort ==
    /\ last.op = "createShortURL"
    /\ last.article = PrivateC
    /\ \A c \in 1..MaxCalls : calls[c] = IdleCall

\* What the payload of the record under the short id of the last resolveShortURL
\* gives when opened with the key the caller supplied.
OpenedWithCallerKey(row) ==
    LET keyBytes == atob(UrlUnsafe(last.key))
    IN  IF keyBytes = Thrown THEN Thrown
        ELSE decryptFromStorage(row.encrypted_payload, keyBytes)

\* C17: resolveShortURL never throws: it returns null on 404 or another
\* non-success status, when the request fails, when the key does not decrypt the
\* payload and when the decrypted data cannot be parsed; it returns an article
\* only when the payload decrypts under the key the caller supplied.
C17_ResolveNeverThrows ==
    last.op = "resolveShortURL" =>
        /\ last.result # Thrown
        /\ last.status # 200 => last.result = Null
        /\ last.status = 200 =>
               \E row \in short_urls :
                   /\ row.id = last.shortId
                   /\ OpenedWithCallerKey(row) = Thrown => last.result = Null
                   /\ OpenedWithCallerKey(row) # Thrown
                          /\ JSONparse(OpenedWithCallerKey(row)) = Thrown =>
                              last.result = Null
                   /\ last.result # Null => OpenedWithCallerKey(row) # Thrown

\* A record was served and its payload did not open with the key of another link.
C17_Witness ==
    /\ last.op = "resolveShortURL"
    /\ last.status = 200
    /\ last.key \in LinkKeys
    /\ last.result = Null
    /\ \E row \in short_urls :
           row.id = last.shortId /\ OpenedWithCallerKey(row) = Thrown

\* A record was served whose payload opened and was no JSON.
C17_WitnessUnparsable ==
    /\ last.op = "resolveShortURL"
    /\ last.status = 200
    /\ last.result = Null
    /\ \E row \in short_urls :
           /\ row.id = last.shortId
           /\ OpenedWithCallerKey(row) # Thrown
           /\ JSONparse(OpenedWithCallerKey(row)) = Thrown

\* Every record has a well-formed short id of its own.
ShortIdsWellFormedAndUnique ==
    /\ \A r \in short_urls : ValidShortIdFormat(r.id)
    /\ \A r1, r2 \in short_urls : r1.id = r2.id => r1 = r2

\* A call leaves generateUniqueShortId only with an id that no record has.
GeneratedIdIsFree ==
    \A c \in 1..MaxCalls :
        calls[c].pc = "generate" /\ calls'[c].pc = "insert" =>
            \A r \in short_urls : r.id # calls'[c].shortId

\* C19: in every reachable state of the short-URL store the short id of every
\* record is 8 characters of [a-zA-Z0-9] and no two records share a short id; a
\* generated id that a record already has is discarded and drawn again before
\* the insertion.
C19_ShortIdsUnique == []ShortIdsWellFormedAndUnique /\ [][GeneratedIdIsFree]_vars

\* The store holds two records, one of them inserted for a call that generated
\* its id while the other record was there.
C19_Witness ==
    /\ Cardinality(short_urls) = 2
    /\ \E c \in 1..MaxCalls, r1, r2 \in short_urls :
           /\ calls[c].inserted
           /\ r1.id = calls[c].shortId
           /\ r2.id # r1.id
           /\ r2.expires_at < r1.expires_at

\* C18: the wallet is never asked to sign or to send for a payload over the
\* ceiling of 51200 bytes: publishArticle with such a payload makes no request
\* to the wallet and fails, with the payload error when an account is connected
\* and the content is of an accepted size.
C18_NoWalletRequestOverCeiling ==
    last.op = "publishArticle" /\ payloadBytes(last.request) > 50 * 1024 =>
        /\ last.wallet = <<>>
        /\ ~last.success
        /\ getAccounts # <<>> /\ validateArticleContent(last.request.content) = Ok =>
               last.error = PayloadTooLarge(payloadBytes(last.request))

\* A payload over the ceiling was refused with an account connected.
C18_Witness ==
    /\ last.op = "publishArticle"
    /\ payloadBytes(last.request) > 50 * 1024
    /\ getAccounts # <<>>
    /\ Prop(last.error, "error") = "Payload too large"
    /\ last.wallet = <<>>

\* A payload of exactly 51200 bytes was signed.
C18_WitnessAtCeiling ==
    /\ last.op = "publishArticle"
    /\ payloadBytes(last.request) = 50 * 1024
    /\ last.success
    /\ Len(last.wallet) = 1

\* The stored record of the article the last publishArticle returned.
PublishedRecord == articles[Len(articles)]

\* C20: publishArticle asks the wallet to sign first and sends a transaction of
\* 100000 sompi to the author's own address only if signing failed; it returns
\* success with the txId made of the signature, success with the id of the
\* transaction, or success false with an error when both failed; sendKaspa is
\* never called after a signature.
C20_SignFirstThenSend ==
    last.op = "publishArticle" /\ last.wallet # <<>> =>
        /\ last.wallet[1].call = "signMessage"
        /\ Len(last.wallet) <= 2
        /\ Len(last.wallet) = 2 =>
               last.wallet[2] = [call |-> "sendKaspa", toAddress |-> getAccounts[1],
                                 sompi |-> 100000]
        /\ last.success =>
               /\ last.txId = PublishedRecord.txId
               /\ last.articleId = PublishedRecord.id
               /\ last.articleId \in DOMAIN articleSignatures <=> Len(last.wallet) = 1
               /\ last.articleId \in DOMAIN articleTransactions <=> Len(last.wallet) = 2
               /\ Len(last.wallet) = 1 =>
                      \E n \in 1..Len(SimulatedTxIds) : last.txId = SimulatedTxIds[n]
               /\ Len(last.wallet) = 2 =>
                      /\ \E n \in 1..Len(TransactionIds) : last.txId = TransactionIds[n]
                      /\ articleTransactions[last.articleId].txId = last.txId
        /\ ~last.success =>
               /\ Len(last.wallet) = 2
               /\ Prop(last.error, "error") = "Failed to send Kaspa"

\* Signing failed and the transaction to the author's own address succeeded.
C20_Witness ==
    /\ last.op = "publishArticle"
    /\ last.success
    /\ Len(last.wallet) = 2
    /\ last.wallet[2].toAddress = PublishedRecord.metadata.author
    /\ last.txId = articleTransactions[last.articleId].txId

\* Signing and sending both failed.
C20_WitnessBothFailed ==
    /\ last.op = "publishArticle"
    /\ ~last.success
    /\ Len(last.wallet) = 2

\* The step is a publishArticle that returned success false.
FailedPublishStep ==
    /\ last' # last
    /\ last'.op = "publishArticle"
    /\ ~last'.success

\* C21: a failed publish changes nothing: a publishArticle that returns success
\* false (no account connected, content too large, payload too large, signing
\* and the transaction both failed) leaves articles, articleKeys,
\* articleSignatures and articleTransactions as they were.
C21_FailedPublishChangesNothing ==
    [][FailedPublishStep =>
           UNCHANGED <<articles, articleKeys, articleSignatures, articleTransactions>>]_vars

\* Signing and the transaction both failed, and the collections are empty as
\* they were.
C21_Witness ==
    /\ last.op = "publishArticle"
    /\ ~last.success
    /\ Len(last.wallet) = 2
    /\ articles = <<>>
    /\ articleKeys = <<>>

\* Every entry of the cache expires seven days after it was stored.
CacheEntriesLastSevenDays ==
    \A id \in DOMAIN sharedArticles :
        sharedArticles[id].expiresAt = sharedArticles[id].sharedAt + 7 * 24 * 60 * 60

\* The step is a getArticleById that came to call getSharedArticle.
CacheAskedStep ==
    /\ last' # last
    /\ last'.op = "getArticleById"
    /\ last'.source \in {"cache", "none"}

\* The step is a getArticleById that stored its article for sharing.
CacheStoredStep ==
    /\ last' # last
    /\ last'.op = "getArticleById"
    /\ last'.source \in {"compressed", "shared", "local"}
    /\ Truthy(Prop(last'.result, "isPublic"))

\* What getSharedArticle and storeArticleForSharing do in a step.
CacheStep ==
    /\ CacheAskedStep /\ last'.id \in DOMAIN sharedArticles =>
           IF now < sharedArticles[last'.id].expiresAt
           THEN /\ last'.source = "cache"
                /\ last'.result = sharedArticles[last'.id]
                /\ sharedArticles' = sharedArticles
           ELSE /\ last'.source = "none"
                /\ last'.result = Null
                /\ last'.removed
                /\ last'.id \notin DOMAIN sharedArticles'
    /\ CacheAskedStep /\ last'.id \notin DOMAIN sharedArticles =>
           last'.result = Null
    /\ CacheStoredStep =>
           /\ last'.id \in DOMAIN sharedArticles'
           /\ sharedArticles'[last'.id].expiresAt = now + 7 * 24 * 60 * 60

\* C25: the shared-article cache expires entries after 7 days: getSharedArticle
\* returns a cached article only while the current time is before the entry's
\* expiresAt, which is 7 days after the most recent storeArticleForSharing of
\* the article; for an expired entry it returns null and removes the entry.
C25_CacheExpiresAfterSevenDays == []CacheEntriesLastSevenDays /\ [][CacheStep]_vars

\* getSharedArticle was asked for an entry that had expired, returned null and
\* removed it.
C25_Witness ==
    /\ last.op = "getArticleById"
    /\ last.source = "none"
    /\ last.removed
    /\ last.result = Null
    /\ last.id \notin DOMAIN sharedArticles

\* getSharedArticle returned an unexpired entry.
C25_WitnessCached ==
    /\ last.op = "getArticleById"
    /\ last.source = "cache"
    /\ now < last.result.expiresAt

\* The ids of the articles that were published here and deleted since.
DeletedIds ==
    {LocalIds[n] : n \in 1..published} \ {articles[i].id : i \in 1..Len(articles)}

\* The last operation was getArticleById without URL data for a deleted article.
ReadAfterDelete ==
    /\ last.op = "getArticleById"
    /\ last.sharedData = NoParam
    /\ last.compressedData = NoParam
    /\ last.id \in DeletedIds

\* C27: a deleted article is no longer readable locally: after deleteArticle(id)
\* returned true, getArticleById(id) without URL data returns null, whatever
\* was published and read before the deletion.
C27_DeletedNotReadable == ReadAfterDelete => last.result = Null

\* A deleted article that nobody had viewed is not found.
C27_DeletedUnviewedNotFound == ReadAfterDelete /\ last.result = Null

\* C22: the short-URL service never mints a duplicate: in every reachable state
\* of the store, also with two POST /api/short requests for the same article id
\* in flight at the same time, there is at most one unexpired record per
\* article id.
C22_OneUnexpiredRecordPerArticle ==
    \A r1, r2 \in short_urls :
        /\ r1.full_article_id = r2.full_article_id
        /\ r1.expires_at > now
        /\ r2.expires_at > now
        => r1 = r2

\* Two requests for the same article overlapped and the store holds one record
\* of the article: the second INSERT was refused for its short id.
C22_RaceWithOneRecord ==
    /\ raced # {}
    /\ \A c \in 1..MaxCalls : Returned(c)
    /\ \E c \in 1..MaxCalls : calls[c].status = 500
    /\ C22_OneUnexpiredRecordPerArticle

\* The step is a sweep.
SweepStep == last' # last /\ last'.op = "cleanupExpiredUrls"

\* No record is altered, and only a sweep removes records, none of them with an
\* expires_at in the future.
RecordsKeptAsStored ==
    /\ \A r \in short_urls, q \in short_urls' : r.id = q.id => r = q
    /\ short_urls \ short_urls' # {} => SweepStep
    /\ \A r \in short_urls \ short_urls' : r.expires_at < now

\* A GET for a well-formed short id that reached the handler is answered 200
\* with the payload of the unexpired record of that id, or 404 without one.
GetAnswersFromRecord ==
    last.op = "resolveShortURL" /\ last.status # 0 /\ ValidShortIdFormat(last.shortId) =>
        IF \E r \in short_urls : r.id = last.shortId /\ r.expires_at > now
        THEN /\ last.status = 200
             /\ \E r \in short_urls :
                    /\ r.id = last.shortId
                    /\ last.articleId = r.full_article_id
                    /\ last.encryptedPayload = r.encrypted_payload
        ELSE last.status = 404 /\ last.encryptedPayload = Null

\* C23: under any interleaving of the expiry sweep with GET /api/short/:shortId,
\* a GET returns 200 with the payload as it was stored at creation, or 404,
\* never an altered record; the sweep never deletes a record whose expires_at
\* is in the future, so a GET for an unexpired record returns 200 before and
\* after a sweep.
C23_SweepAndGetInterleave == []GetAnswersFromRecord /\ [][RecordsKeptAsStored]_vars

\* After a sweep that removed an expired record, a GET for an unexpired one was
\* answered 200.
C23_Witness ==
    /\ last.op = "resolveShortURL"
    /\ last.status = 200
    /\ ticks > 0
    /\ Cardinality(short_urls) = 1
    /\ \E c \in 1..MaxCalls :
           /\ calls[c].inserted
           /\ calls[c].shortId # last.shortId

\* The step is the setItem of storeArticle in tab t.
ArticlesSetItem(t) ==
    /\ tabs[t].pc = "setItem"
    /\ tabs'[t] # tabs[t]
    /\ Head(tabs[t].todo) = "articles"
    /\ "articles" \in tabs'[t].written

\* What storeArticle writes is the collection as the tab read it plus the
\* tab's article, whatever the store holds at the time of the write.
ArticlesWrittenFromCopy ==
    \A t \in Tabs :
        ArticlesSetItem(t) => articles' = Append(tabs[t].copy, tabs[t].pending.article)

\* C24: writes to the articles collection are a non-atomic read-modify-write
\* shared by the tabs: the write replaces the collection by the copy the tab
\* read earlier plus its own article, so that, with two tabs publishing at the
\* same time, both calls can return success with only one of the two articles
\* in the collection.
C24_ArticlesReadModifyWrite == [][ArticlesWrittenFromCopy]_vars

\* The ids of the stored articles.
StoredIds == {articles[i].id : i \in 1..Len(articles)}

\* The lost update: both tabs returned success, both wrote the collection
\* without an error, and only one of the two articles is in it.
C24_Witness ==
    /\ \A t \in Tabs :
           /\ tabs[t].pc = "idle"
           /\ tabs[t].result # Null
           /\ tabs[t].result.success
           /\ "articles" \in tabs[t].written
    /\ tabs[1].result.articleId # tabs[2].result.articleId
    /\ Len(articles) = 1
    /\ \E t \in Tabs : tabs[t].result.articleId \notin StoredIds

\* C26: whenever publishArticle returns success with articleId X and txId T,
\* the articles collection holds exactly one encrypted article with id X, its
\* txId is T, and, if the article is public, articleKeys holds its key; also
\* when a write to the local store fails.
C26_SuccessMeansStored ==
    last.op = "publishArticle" /\ last.success =>
        /\ Cardinality({i \in 1..Len(articles) : articles[i].id = last.articleId}) = 1
        /\ \A i \in 1..Len(articles) :
               articles[i].id = last.articleId => articles[i].txId = last.txId
        /\ Truthy(last.request.isPublic) =>
               \A i \in 1..Len(articles) :
                   articles[i].id = last.articleId => KeyStored(articles[i])

\* After a manual disconnect the store is not connected.
ManuallyDisconnectedIsNotConnected ==
    walletState.isManuallyDisconnected => ~walletState.isConnected

\* Only connect() clears the manual-disconnect flag.
FlagClearedByConnect ==
    walletState.isManuallyDisconnected /\ ~walletState'.isManuallyDisconnected
        => last'.op = "connect"

\* C28: a manual disconnect is never undone automatically: in every reachable
\* state of the wallet store isManuallyDisconnected implies not isConnected,
\* also when checkConnection or an accountsChanged listener is suspended at a
\* wallet call (getAccounts, getBalance) while disconnect completes; only
\* connect() clears the flag.
C28_ManualDisconnectNotUndone ==
    []ManuallyDisconnectedIsNotConnected /\ [][FlagClearedByConnect]_vars

\* The session has expired.
SessionExpired ==
    /\ auth.currentSession # Null
    /\ now > auth.currentSession.expiresAt

\* C29: an expired authentication session stays expired: once the time has
\* passed the session's expiresAt (24 hours after its creation or its last
\* refresh), nothing but a new successful authenticate() makes
\* isAuthenticated() return true again; refreshSession does not revive it.
C29_ExpiredStaysExpired ==
    [][SessionExpired /\ isAuthenticated' => last'.op = "authenticate" /\ last'.success]_vars

\* C30: whenever authenticate() returns success, the address of the created
\* session is the first account of the connected wallet, a non-empty address,
\* also when the wallet had no connected account at the start of the call and
\* authenticate connected it itself.
C30_SessionOfFirstAccount ==
    last.op = "authenticate" /\ last.success =>
        /\ getAccounts # <<>>
        /\ last.session.address = getAccounts[1]
        /\ last.session.address \in Addresses

=============================================================================
